---- MODULE Spec2Model ----
(***************************************************************************)
(* A model of the taste/text analytics core of the whiskey journal:        *)
(* the record store (spreadsheet rows plus the in-memory fallback list),   *)
(* the weighted trend analysers, the memo word counter, the result cache   *)
(* and the lazily initialised singletons.                                  *)
(***************************************************************************)
EXTENDS Integers, Sequences, FiniteSets, TLC

VARIABLES
    sheet,          \* data rows of the worksheet, in row order (header left out)
    memory_store,   \* memory_store['records']
    is_connected,   \* GoogleSheetsManager.is_connected
    CACHE,          \* cache_utils._CACHE: key -> [value, timestamp]
    now,            \* time.time(), in seconds
    KIWI_INSTANCE,  \* data._KIWI_INSTANCE
    WHITELIST,      \* data._WHITELIST
    env,            \* what the process finds: the tokenizer, the whitelist file, and
                    \* which of its collaborators raise when called
    ret,            \* the last call of an entry point and what it returned
    threads,        \* where each server thread stands inside a call, and its locals
    locks           \* data._KIWI_LOCK and data._WHITELIST_LOCK: the holder of each

vars == <<sheet, memory_store, is_connected, CACHE, now, KIWI_INSTANCE, WHITELIST,
          env, ret, threads, locks>>

-----------------------------------------------------------------------------
(* IEEE-754 binary64 values >= 0 and < 16, held exactly: <<hi, lo>> is the   *)
(* integer hi * 2^30 + lo, counted in units of 2^-56.  Python's float + and  *)
(* * are the exact result rounded to 53 significant bits, ties to even.      *)

Base == 1073741824
MantBits == 53

RECURSIVE Pow2(_)
Pow2(k) == IF k = 0 THEN 1 ELSE 2 * Pow2(k - 1)

RECURSIVE BitLen(_)
BitLen(m) == IF m = 0 THEN 0 ELSE 1 + BitLen(m \div 2)

FBits(a) == IF a[1] > 0 THEN 30 + BitLen(a[1]) ELSE BitLen(a[2])

FNorm(hi, lo) == IF lo >= Base THEN <<hi + 1, lo - Base>> ELSE <<hi, lo>>

FRound(a) ==
    LET s == FBits(a) - MantBits
    IN  IF s <= 0 THEN a
        ELSE LET q == Pow2(s)
                 r == a[2] % q
                 down == a[2] - r
                 odd == (a[2] \div q) % 2 = 1
                 up == (2 * r > q) \/ (2 * r = q /\ odd)
             IN  IF up THEN FNorm(a[1], down + q) ELSE <<a[1], down>>

\* a + b
FAdd(a, b) == FRound(FNorm(a[1] + b[1], a[2] + b[2]))

FHalf(a) == <<a[1] \div 2, (a[2] \div 2) + (a[1] % 2) * (Base \div 2)>>

\* a * 1.5 (a is a sum of weights >= 0.6, so a / 2 is exact in these units)
FMul15(a) == FRound(FNorm(a[1] + FHalf(a)[1], a[2] + FHalf(a)[2]))

\* a >= b
FGeq(a, b) == a[1] > b[1] \/ (a[1] = b[1] /\ a[2] >= b[2])

FZero == <<0, 0>>
Float10 == <<67108864, 0>>              \* 1.0
Float08 == <<53687091, 214748368>>      \* 0.8
Float06 == <<40265318, 429496728>>      \* 0.6
Float03 == <<20132659, 214748364>>      \* 0.3
Float01 == <<6710886, 429496730>>       \* 0.1

-----------------------------------------------------------------------------
(* Configuration constants of data.py                                       *)

RATING_WEIGHTS == (5 :> Float10) @@ (4 :> Float08) @@ (3 :> Float06) @@
                  (2 :> Float03) @@ (1 :> Float01)

MinRecords == 5
MaxRating == 5

DelMark == "[deleted"

NoneVal == [kind |-> "None"]

-----------------------------------------------------------------------------
(* Generic helpers                                                          *)

Min(a, b) == IF a <= b THEN a ELSE b

startswith_deleted(memo) == Len(memo) > 0 /\ memo[1] = DelMark

PaddedIds == [padded \in {" u1", "u1 ", " u2", "u2 "} |->
                 IF padded \in {" u1", "u1 "} THEN "u1" ELSE "u2"]

\* how a block of code ends: with a value, or with an exception on its way up
returns(value) == [raised |-> FALSE, value |-> value]
raises == [raised |-> TRUE, value |-> <<>>]

\* what the caller of a function gets when an exception leaves the function
Raised == [kind |-> "raised"]

\* the block without a handler around it
uncaught(outcome) == IF outcome.raised THEN Raised ELSE outcome.value

\* try: <outcome> / except Exception: return <sentinel>
except_as(outcome, sentinel) == IF outcome.raised THEN sentinel ELSE outcome.value

\* list.sort(key=timestamp, reverse=True): stable, newest first
RECURSIVE InsertNewestFirst(_, _)
InsertNewestFirst(sorted, r) ==
    IF sorted = <<>> THEN <<r>>
    ELSE IF Head(sorted).timestamp >= r.timestamp
         THEN <<Head(sorted)>> \o InsertNewestFirst(Tail(sorted), r)
         ELSE <<r>> \o sorted

RECURSIVE SortNewestFirst(_)
SortNewestFirst(s) ==
    IF s = <<>> THEN <<>>
    ELSE InsertNewestFirst(SortNewestFirst(SubSeq(s, 1, Len(s) - 1)), s[Len(s)])

-----------------------------------------------------------------------------
(* GoogleSheetsManager: reading the worksheet                               *)

\* a rating cell holds digits (a number >= 0) or anything else (NotDigits)
NotDigits == -1

parse_taste_notes(cell) == SelectSeq(cell, LAMBDA note : note # "")

parse_whiskey_row(row) ==
    [id |-> <<"ts", row.timestamp>>,
     timestamp |-> row.timestamp,
     user_id |-> row.user_id,
     whiskey_name |-> row.whiskey_name,
     taste_notes |-> parse_taste_notes(row.taste_notes),
     rating |-> IF row.rating >= 0 THEN row.rating ELSE 0,
     memo |-> row.memo,
     keyword |-> row.keyword]

RECURSIVE ParseRows(_)
ParseRows(rows) ==
    IF rows = <<>> THEN <<>>
    ELSE <<parse_whiskey_row(Head(rows))>> \o ParseRows(Tail(rows))

\* whiskey_worksheet.get('A:J'): the data rows, unless the spreadsheet API raises
worksheet_get == IF "worksheet" \in env.faults THEN raises ELSE returns(sheet)

get_all_whiskey_records ==
    IF ~is_connected THEN <<>>
    ELSE except_as(IF worksheet_get.raised THEN raises
                   ELSE returns(SortNewestFirst(ParseRows(worksheet_get.value))),
                   <<>>)

get_user_whiskey_records(user_id) ==
    IF ~is_connected THEN <<>>
    ELSE SelectSeq(get_all_whiskey_records, LAMBDA r : r.user_id = user_id)

get_user_whiskey_records_visible(user_id) ==
    IF ~is_connected THEN <<>>
    ELSE SelectSeq(get_user_whiskey_records(user_id),
                   LAMBDA r : ~startswith_deleted(r.memo))

-----------------------------------------------------------------------------
(* WhiskeyDataManager: reading                                              *)

get_all_records ==
    LET records == get_all_whiskey_records
    IN  IF is_connected /\ records # <<>>
        THEN records
        ELSE SortNewestFirst(memory_store)

\* str.strip() over the user ids: the login writes "kakao_<number>", which holds
\* no blank; an id typed with blanks around it loses them
strip(user_id) ==
    IF user_id \in DOMAIN PaddedIds THEN PaddedIds[user_id] ELSE user_id

\* a variant of the fallback that forgets whose records it was asked for
get_user_records_of_anyone(user_id) ==
    LET records == get_user_whiskey_records_visible(user_id)
    IN  IF is_connected /\ records # <<>>
        THEN records
        ELSE SelectSeq(get_all_records, LAMBDA r : ~startswith_deleted(r.memo))

get_user_records(user_id) ==
    LET records == get_user_whiskey_records_visible(user_id)
    IN  IF is_connected /\ records # <<>>
        THEN records
        ELSE SelectSeq(get_all_records,
                       LAMBDA r : strip(r.user_id) = user_id /\ ~startswith_deleted(r.memo))

-----------------------------------------------------------------------------
(* Python dicts that the code sorts or iterates: a sequence of <<key, value>> *)
(* pairs in insertion order                                                   *)

dict_has(d, key) == \E i \in 1..Len(d) : d[i][1] = key

dict_get(d, key, default) ==
    IF dict_has(d, key) THEN d[CHOOSE i \in 1..Len(d) : d[i][1] = key][2] ELSE default

dict_keys(d) == [i \in 1..Len(d) |-> d[i][1]]

\* d[key] = d.get(key, 0) + weight
dict_add(d, key, weight) ==
    IF dict_has(d, key)
    THEN [i \in 1..Len(d) |-> IF d[i][1] = key THEN <<key, FAdd(d[i][2], weight)>> ELSE d[i]]
    ELSE Append(d, <<key, FAdd(FZero, weight)>>)

RECURSIVE add_notes(_, _, _)
add_notes(d, notes, weight) ==
    IF notes = <<>> THEN d
    ELSE add_notes(dict_add(d, Head(notes), weight), Tail(notes), weight)

\* sorted(d.items(), key=lambda x: x[1], reverse=True): stable, highest first
RECURSIVE InsertByScore(_, _)
InsertByScore(sorted, item) ==
    IF sorted = <<>> THEN <<item>>
    ELSE IF FGeq(Head(sorted)[2], item[2])
         THEN <<Head(sorted)>> \o InsertByScore(Tail(sorted), item)
         ELSE <<item>> \o sorted

RECURSIVE sorted_by_score(_)
sorted_by_score(d) ==
    IF d = <<>> THEN <<>>
    ELSE InsertByScore(sorted_by_score(SubSeq(d, 1, Len(d) - 1)), d[Len(d)])

-----------------------------------------------------------------------------
(* analyze_recent_taste_trend                                               *)

KoreanNames == [fruity |-> "peuruti", floral |-> "peulloreol", sweet |-> "seuwit",
                oaky |-> "udi", nutty |-> "neoti", peaty |-> "piteu",
                smoky |-> "seumoki", spicy |-> "seupaisi"]

note_to_korean(note) ==
    IF note \in DOMAIN KoreanNames THEN KoreanNames[note] ELSE note

TrendRatingFloor == 3

\* a variant whose window reaches two records further back
recent_window_wide(records, n) == SubSeq(records, 1, Min(n + 2, Len(records)))

recent_window(records, n) == SubSeq(records, 1, Min(n, Len(records)))

\* a variant that keeps two-star records as well
filtered_records_two_stars(records, n) ==
    SelectSeq(recent_window(records, n), LAMBDA r : r.rating >= TrendRatingFloor - 1)

filtered_records(records, n) ==
    SelectSeq(recent_window(records, n), LAMBDA r : r.rating >= TrendRatingFloor)

recent_weight(rating) ==
    IF rating \in DOMAIN RATING_WEIGHTS THEN RATING_WEIGHTS[rating] ELSE Float06

RECURSIVE weighted_counts(_)
weighted_counts(filtered) ==
    IF filtered = <<>> THEN <<>>
    ELSE LET r == filtered[Len(filtered)]
         IN  add_notes(weighted_counts(SubSeq(filtered, 1, Len(filtered) - 1)),
                       r.taste_notes, recent_weight(r.rating))

clear_trend(top_note) ==
    [kind |-> "verdict", is_clear_trend |-> TRUE, top_note |-> top_note,
     top_note_korean |-> note_to_korean(top_note)]

no_clear_trend == [kind |-> "verdict", is_clear_trend |-> FALSE]

trend_threshold_met(first_score, second_score) == FGeq(first_score, FMul15(second_score))

\* a variant that sees no clear trend in a single tag
trend_verdict_needs_two(counts) ==
    LET sorted_notes == sorted_by_score(counts)
    IN  IF Len(sorted_notes) < 2 THEN no_clear_trend
        ELSE IF trend_threshold_met(sorted_notes[1][2], sorted_notes[2][2])
             THEN clear_trend(sorted_notes[1][1])
             ELSE no_clear_trend

trend_verdict(counts) ==
    LET sorted_notes == sorted_by_score(counts)
    IN  IF Len(sorted_notes) < 2 THEN clear_trend(sorted_notes[1][1])
        ELSE IF trend_threshold_met(sorted_notes[1][2], sorted_notes[2][2])
             THEN clear_trend(sorted_notes[1][1])
             ELSE no_clear_trend

\* a variant that lets a user one record short of the minimum through
trend_too_few_short(records) == Len(records) < MinRecords - 1

\* if len(records) < 5: return None
trend_too_few(records) == Len(records) < MinRecords

\* a variant that answers "no clear trend" when no tag gathered any weight
recent_taste_trend_untagged(records, n) ==
    IF trend_too_few(records) THEN NoneVal
    ELSE IF filtered_records(records, n) = <<>> THEN NoneVal
    ELSE IF weighted_counts(filtered_records(records, n)) = <<>> THEN no_clear_trend
    ELSE trend_verdict(weighted_counts(filtered_records(records, n)))

\* the function body, given what get_user_records returned
recent_taste_trend(records, n) ==
    IF trend_too_few(records) THEN NoneVal
    ELSE IF filtered_records(records, n) = <<>> THEN NoneVal
    ELSE IF weighted_counts(filtered_records(records, n)) = <<>> THEN NoneVal
    ELSE trend_verdict(weighted_counts(filtered_records(records, n)))

-----------------------------------------------------------------------------
(* The tokenizer and the word filter                                        *)

\* kiwi.analyze(memo)[0][0], one memo word at a time: the tokens (form, tag)
KiwiLexicon ==
    [smoky   |-> <<[form |-> "smoky", tag |-> "NNG"]>>,
     vanilla |-> <<[form |-> "vanilla", tag |-> "NNG"]>>,
     islay   |-> <<[form |-> "islay", tag |-> "NNP"]>>,
     lingers |-> <<[form |-> "linger", tag |-> "VV"], [form |-> "s", tag |-> "EF"]>>,
     whiskey |-> <<[form |-> "whiskey", tag |-> "NNG"]>>,
     oak     |-> <<[form |-> "oak", tag |-> "NNG"]>>,
     very    |-> <<[form |-> "very", tag |-> "MAG"]>>,
     x       |-> <<[form |-> "x", tag |-> "NNG"]>>]

Words == DOMAIN KiwiLexicon

RECURSIVE kiwi_analyze(_)
kiwi_analyze(memo) ==
    IF memo = <<>> THEN <<>>
    ELSE (IF Head(memo) \in Words THEN KiwiLexicon[Head(memo)] ELSE <<>>)
         \o kiwi_analyze(Tail(memo))

STOPWORDS == {"whiskey", "very"}

ExtractedTags == {"NNG", "NNP", "VV"}

MinWordLen == 2

\* a variant that lets one-letter words through
is_countable_any_length(token, whitelist) ==
    /\ token.tag \in ExtractedTags
    /\ token.form \notin STOPWORDS
    /\ token.form \in whitelist

is_countable(token, whitelist) ==
    /\ token.tag \in ExtractedTags
    /\ Len(token.form) >= MinWordLen
    /\ token.form \notin STOPWORDS
    /\ token.form \in whitelist

\* word_counts[word] = word_counts.get(word, 0) + 1
count_word(word_counts, word) ==
    IF word \in DOMAIN word_counts
    THEN [word_counts EXCEPT ![word] = @ + 1]
    ELSE word_counts @@ (word :> 1)

RECURSIVE count_tokens(_, _, _)
count_tokens(word_counts, tokens, whitelist) ==
    IF tokens = <<>> THEN word_counts
    ELSE count_tokens(IF is_countable(Head(tokens), whitelist)
                      THEN count_word(word_counts, Head(tokens).form)
                      ELSE word_counts,
                      Tail(tokens), whitelist)

EmptyDict == [w \in {} |-> 0]

\* a variant that counts the words of soft-deleted memos too
RECURSIVE count_memos_with_deleted(_, _, _)
count_memos_with_deleted(word_counts, memo_list, whitelist) ==
    IF memo_list = <<>> THEN word_counts
    ELSE IF Head(memo_list) = <<>>
         THEN count_memos_with_deleted(word_counts, Tail(memo_list), whitelist)
         ELSE count_memos_with_deleted(
                  count_tokens(word_counts, kiwi_analyze(Head(memo_list)), whitelist),
                  Tail(memo_list), whitelist)

RECURSIVE count_memos(_, _, _)
count_memos(word_counts, memo_list, whitelist) ==
    IF memo_list = <<>> THEN word_counts
    ELSE IF Head(memo_list) = <<>> \/ startswith_deleted(Head(memo_list))
         THEN count_memos(word_counts, Tail(memo_list), whitelist)
         ELSE count_memos(count_tokens(word_counts, kiwi_analyze(Head(memo_list)), whitelist),
                          Tail(memo_list), whitelist)

\* _get_kiwi(), one caller at a time: the instance after the call
\* Kiwi(): a new tokenizer; "serial" tells the instances apart, the first is 1
new_kiwi ==
    [kind |-> "Kiwi",
     serial |-> IF KIWI_INSTANCE = NoneVal THEN 1 ELSE KIWI_INSTANCE.serial + 1]

\* a variant whose import of kiwipiepy always succeeds
get_kiwi_importing == IF KIWI_INSTANCE = NoneVal THEN new_kiwi ELSE KIWI_INSTANCE

get_kiwi == IF KIWI_INSTANCE = NoneVal /\ env.kiwi_installed
            THEN new_kiwi
            ELSE KIWI_INSTANCE

\* _get_whitelist(), one caller at a time: the set after the call
\* the set read from whiskey_whitelist.csv, or set() when the file is missing
new_whitelist ==
    [kind |-> "set",
     words |-> IF env.whitelist_file = "present" THEN env.whitelist_words ELSE {},
     serial |-> IF WHITELIST = NoneVal THEN 1 ELSE WHITELIST.serial + 1]

\* a variant that reads the file again while the set is empty
get_whitelist_reloading ==
    IF WHITELIST = NoneVal \/ WHITELIST.words = {} THEN new_whitelist ELSE WHITELIST

get_whitelist == IF WHITELIST = NoneVal THEN new_whitelist ELSE WHITELIST

\* _parse_memo_text: the mapping returned (the singletons move as get_kiwi and
\* get_whitelist say)
\* kiwi.analyze(memo) is reached, and raises, for the first memo that is neither
\* empty nor marked as deleted
\* (fault "analyze": on every memo; fault "analyze_memo": on the memos that hold
\* a word the tokenizer cannot take)
unanalysable(memo) == \E k \in 1..Len(memo) : memo[k] = "islay"

analyze_raises_at(memo_list) ==
    {i \in 1..Len(memo_list) :
        /\ memo_list[i] # <<>> /\ ~startswith_deleted(memo_list[i])
        /\ \/ "analyze" \in env.faults
           \/ "analyze_memo" \in env.faults /\ unanalysable(memo_list[i])}

analyze_raises(memo_list) == analyze_raises_at(memo_list) # {}

\* the body of the try block
parse_memo_text_body(memo_list) ==
    IF get_kiwi = NoneVal THEN returns(EmptyDict)
    ELSE IF analyze_raises(memo_list) THEN raises
    ELSE returns(count_memos(EmptyDict, memo_list, get_whitelist.words))

\* a variant without the except clause
parse_memo_text_uncaught(memo_list) == uncaught(parse_memo_text_body(memo_list))

\* a variant that returns what was counted before the memo that failed
parse_memo_text_partial(memo_list) ==
    except_as(parse_memo_text_body(memo_list),
              count_memos(EmptyDict,
                          SubSeq(memo_list, 1,
                                 (CHOOSE i \in analyze_raises_at(memo_list) :
                                     \A j \in analyze_raises_at(memo_list) : i <= j) - 1),
                          get_whitelist.words))

parse_memo_text(memo_list) == except_as(parse_memo_text_body(memo_list), EmptyDict)

KIWI_after_parse == get_kiwi
WHITELIST_after_parse == IF get_kiwi = NoneVal THEN WHITELIST ELSE get_whitelist

-----------------------------------------------------------------------------
(* get_user_taste_analysis: the computation past the cache and the count    *)

MainRatingFloor == 4
SubRatingCeiling == 2

\* a variant that weighs every rating of the table as five stars
full_weight_flat(rating) ==
    IF rating \in DOMAIN RATING_WEIGHTS THEN Float10 ELSE FZero

full_weight(rating) ==
    IF rating \in DOMAIN RATING_WEIGHTS THEN RATING_WEIGHTS[rating] ELSE FZero

RECURSIVE main_expressions(_)
main_expressions(records) ==
    IF records = <<>> THEN <<>>
    ELSE LET r == records[Len(records)]
             before == main_expressions(SubSeq(records, 1, Len(records) - 1))
         IN  IF r.rating >= MainRatingFloor
             THEN add_notes(before, r.taste_notes, full_weight(r.rating))
             ELSE before

RECURSIVE sub_expressions(_)
sub_expressions(records) ==
    IF records = <<>> THEN <<>>
    ELSE LET r == records[Len(records)]
             before == sub_expressions(SubSeq(records, 1, Len(records) - 1))
         IN  IF r.rating < MainRatingFloor /\ r.rating <= SubRatingCeiling
             THEN add_notes(before, r.taste_notes, full_weight(r.rating))
             ELSE before

RECURSIVE memos_of(_)
memos_of(records) ==
    IF records = <<>> THEN <<>>
    ELSE <<Head(records).memo>> \o memos_of(Tail(records))

memo_texts(records) ==
    SelectSeq(memos_of(records), LAMBDA memo : memo # <<>> /\ ~startswith_deleted(memo))

taste_analysis(records) ==
    [kind |-> "result",
     main_expressions |-> main_expressions(records),
     sub_expressions |-> sub_expressions(records),
     memo_wordcloud |-> parse_memo_text(memo_texts(records)),
     total_count |-> Len(records)]

-----------------------------------------------------------------------------
(* cache_utils                                                              *)

CACHE_TTL == 300

\* a variant that still serves an entry aged exactly the TTL
cache_fresh_inclusive(key) ==
    key \in DOMAIN CACHE /\ now - CACHE[key].timestamp <= CACHE_TTL

cache_fresh(key) == key \in DOMAIN CACHE /\ now - CACHE[key].timestamp < CACHE_TTL

\* get_cache(key): the value returned, and _CACHE after the call
get_cache(key) == IF cache_fresh(key) THEN CACHE[key].value ELSE NoneVal

CACHE_after_get(key) ==
    IF key \in DOMAIN CACHE /\ ~cache_fresh(key)
    THEN [k \in DOMAIN CACHE \ {key} |-> CACHE[k]]
    ELSE CACHE

\* set_cache(key, value) on the mapping c; "inserted" is no part of the program:
\* it keeps the content the value had when it was stored
set_cache(c, key, value) ==
    [k \in DOMAIN c \cup {key} |->
        IF k = key THEN [value |-> value, timestamp |-> now, inserted |-> value]
        ELSE c[k]]

\* clear_cache()
clear_cache == [k \in {} |-> NoneVal]

cache_key(user_id) == <<"taste_analysis", user_id>>

-----------------------------------------------------------------------------
(* Bounds and input sets                                                    *)

MaxRows == 6
MaxOtherRows == 1
MaxDeleted == 1
TickStep == CACHE_TTL \div 2
MaxTime == CACHE_TTL

Analysed == "u1"
Users == {Analysed, "u2"}

NoCall == [op |-> "none"]

\* the threads of the server that run the callbacks
Threads == {"t1", "t2"}
IdleThread ==
    [pc |-> "idle", op |-> "none", local |-> NoneVal, result |-> NoneVal,
     at_check |-> NoneVal, evicted |-> NoneVal]
Unlocked == "unlocked"
FreeLocks == [KIWI_LOCK |-> Unlocked, WHITELIST_LOCK |-> Unlocked]

\* what the save form submits: name, checked notes, stars, memo
SaveInputs ==
    {[whiskey_name |-> "ardbeg", taste_notes |-> <<"peaty">>, rating |-> 5,
      memo |-> <<"smoky">>]}

Envs == {[kiwi_installed |-> TRUE, whitelist_file |-> "present",
          whitelist_words |-> {"smoky", "vanilla", "linger", "x", "whiskey"},
          faults |-> {}]}

all_rows_records == IF is_connected THEN get_all_whiskey_records ELSE SortNewestFirst(memory_store)

RECURSIVE MaxTimestamp(_)
MaxTimestamp(records) ==
    IF records = <<>> THEN 0
    ELSE LET m == MaxTimestamp(Tail(records))
         IN  IF Head(records).timestamp > m THEN Head(records).timestamp ELSE m

\* datetime.now(): later than every stored record
next_timestamp ==
    1 + (LET a == MaxTimestamp(sheet) b == MaxTimestamp(memory_store)
         IN  IF a > b THEN a ELSE b)

-----------------------------------------------------------------------------
(* get_similar_users_memo_wordcloud                                         *)

seq_range(q) == {q[i] : i \in 1..Len(q)}

\* a variant that lets the caller's own records in
similar_memos_with_own(user_id, user_notes) ==
    memos_of(SelectSeq(get_all_records,
        LAMBDA r : /\ r.memo # <<>> /\ ~startswith_deleted(r.memo)
                   /\ seq_range(r.taste_notes) \cap seq_range(user_notes) # {}))

similar_memos(user_id, user_notes) ==
    memos_of(SelectSeq(get_all_records,
        LAMBDA r : /\ r.user_id # user_id
                   /\ r.memo # <<>> /\ ~startswith_deleted(r.memo)
                   /\ seq_range(r.taste_notes) \cap seq_range(user_notes) # {}))

similar_users_parses(user_id, user_notes) ==
    user_notes # <<>> /\ similar_memos(user_id, user_notes) # <<>>

get_similar_users_memo_wordcloud(user_id, user_notes) ==
    LET memos == similar_memos(user_id, user_notes)
    IN  IF user_notes # <<>> /\ memos # <<>>
        THEN parse_memo_text(memos)
        ELSE EmptyDict

-----------------------------------------------------------------------------
(* Writing: GoogleSheetsManager and WhiskeyDataManager                      *)

\* str(row[0]) == str(record id): the sheet holds the ISO timestamp in column A
id_matches_row(record_id, row) == record_id = <<"ts", row.timestamp>>

\* the first of the matching positions, 0 when there is none
first_index(matching) ==
    IF matching = {} THEN 0
    ELSE CHOOSE i \in matching : \A j \in matching : i <= j

row_of(record) ==
    [timestamp |-> record.timestamp, user_id |-> record.user_id,
     whiskey_name |-> record.whiskey_name, taste_notes |-> record.taste_notes,
     rating |-> record.rating, memo |-> record.memo, keyword |-> <<>>]

\* GoogleSheetsManager.save_whiskey_record: <<success, sheet afterwards>>
sheet_save(record) ==
    IF ~is_connected THEN <<FALSE, sheet>>
    ELSE <<TRUE, Append(sheet, row_of(record))>>

\* GoogleSheetsManager.update_whiskey_record
sheet_update(record) ==
    LET target == first_index({i \in 1..Len(sheet) : id_matches_row(record.id, sheet[i])})
    IN  IF ~is_connected \/ sheet = <<>> \/ target = 0 THEN <<FALSE, sheet>>
        ELSE <<TRUE, [sheet EXCEPT ![target] =
                        [row_of(record) EXCEPT !.keyword = sheet[target].keyword]]>>

\* GoogleSheetsManager.soft_delete_whiskey_record
sheet_soft_delete(record_id, user_id) ==
    LET target == first_index({i \in 1..Len(sheet) :
                                  /\ id_matches_row(record_id, sheet[i])
                                  /\ sheet[i].user_id = user_id})
    IN  IF ~is_connected \/ sheet = <<>> \/ target = 0 THEN <<FALSE, sheet>>
        ELSE <<TRUE, [sheet EXCEPT ![target].memo = <<DelMark>> \o @]>>

\* WhiskeyDataManager._save_to_memory
save_to_memory(record) ==
    IF \E i \in 1..Len(memory_store) : memory_store[i] = record
    THEN memory_store ELSE Append(memory_store, record)

\* the memory half of WhiskeyDataManager.update_record
memory_update(record) ==
    LET i == first_index({k \in 1..Len(memory_store) : memory_store[k].id = record.id})
    IN  IF i = 0 THEN memory_store ELSE [memory_store EXCEPT ![i] = record]

\* the memory half of WhiskeyDataManager.soft_delete_record
memory_soft_delete(record_id, user_id) ==
    LET i == first_index({k \in 1..Len(memory_store) :
                             /\ memory_store[k].id = record_id
                             /\ memory_store[k].user_id = user_id})
    IN  IF i = 0 THEN memory_store
        ELSE [memory_store EXCEPT ![i].memo = <<DelMark>> \o @]

\* the record the save form builds for a new entry (callbacks.save_record_with_loading)
new_record(user_id, input) ==
    [id |-> <<"f", next_timestamp>>, user_id |-> user_id,
     whiskey_name |-> input.whiskey_name, taste_notes |-> input.taste_notes,
     rating |-> input.rating, memo |-> input.memo, timestamp |-> next_timestamp]

\* the record the save form builds in edit mode, from the record opened for editing
edited_record(user_id, opened, input) ==
    [id |-> opened.id, user_id |-> user_id,
     whiskey_name |-> input.whiskey_name, taste_notes |-> input.taste_notes,
     rating |-> input.rating, memo |-> input.memo, timestamp |-> opened.timestamp]

-----------------------------------------------------------------------------
(* get_user_taste_analysis, with its cache                                  *)

TrendN == 10
TrendNs == {TrendN, MinRecords - 2}

\* rows of the store that counts: the worksheet when connected, else the memory list
store_rows == IF is_connected THEN sheet ELSE memory_store

nondeleted_count(user_id) ==
    Cardinality({i \in 1..Len(store_rows) :
        store_rows[i].user_id = user_id /\ ~startswith_deleted(store_rows[i].memo)})

\* a variant that lets a user one record short of the minimum through
analysis_too_few_short(records) == Len(records) < MinRecords - 1

\* if len(records) < 5: return None
analysis_too_few(records) == Len(records) < MinRecords

\* everything one call of get_user_taste_analysis(user_id) does
\* a variant that puts the None answer in the cache
full_analysis_call_caching_none(user_id) ==
    LET key == cache_key(user_id)
        records == get_user_records(user_id)
    IN  IF get_cache(key) # NoneVal
        THEN [result |-> get_cache(key), cache |-> CACHE_after_get(key),
              kiwi |-> KIWI_INSTANCE, whitelist |-> WHITELIST,
              from_cache |-> TRUE, parsed |-> FALSE, stored |-> FALSE]
        ELSE IF analysis_too_few(records)
        THEN [result |-> NoneVal, cache |-> set_cache(CACHE_after_get(key), key, NoneVal),
              kiwi |-> KIWI_INSTANCE, whitelist |-> WHITELIST,
              from_cache |-> FALSE, parsed |-> FALSE, stored |-> TRUE]
        ELSE LET analysis == taste_analysis(records)
             IN  [result |-> analysis,
                  cache |-> set_cache(CACHE_after_get(key), key, analysis),
                  kiwi |-> KIWI_after_parse, whitelist |-> WHITELIST_after_parse,
                  from_cache |-> FALSE, parsed |-> TRUE, stored |-> TRUE]

full_analysis_call(user_id) ==
    LET key == cache_key(user_id)
        records == get_user_records(user_id)
    IN  IF get_cache(key) # NoneVal
        THEN [result |-> get_cache(key), cache |-> CACHE_after_get(key),
              kiwi |-> KIWI_INSTANCE, whitelist |-> WHITELIST,
              from_cache |-> TRUE, parsed |-> FALSE, stored |-> FALSE]
        ELSE IF analysis_too_few(records)
        THEN [result |-> NoneVal, cache |-> CACHE_after_get(key),
              kiwi |-> KIWI_INSTANCE, whitelist |-> WHITELIST,
              from_cache |-> FALSE, parsed |-> FALSE, stored |-> FALSE]
        ELSE LET analysis == taste_analysis(records)
             IN  [result |-> analysis,
                  cache |-> set_cache(CACHE_after_get(key), key, analysis),
                  kiwi |-> KIWI_after_parse, whitelist |-> WHITELIST_after_parse,
                  from_cache |-> FALSE, parsed |-> TRUE, stored |-> TRUE]

\* what the model keeps of a call: its answer, and, for the properties, what the
\* store and the cache held when it was made
call_record(op, user_id, call) ==
    [op |-> op, user_id |-> user_id, result |-> call.result,
     from_cache |-> call.from_cache, parsed |-> call.parsed,
     visible_count |-> nondeleted_count(user_id),
     entry_age |-> IF cache_key(user_id) \in DOMAIN CACHE
                   THEN now - CACHE[cache_key(user_id)].timestamp ELSE -1,
     inserted |-> IF cache_key(user_id) \in DOMAIN CACHE
                  THEN CACHE[cache_key(user_id)].inserted ELSE NoneVal]

get_user_taste_analysis(user_id) ==
    \E call \in {full_analysis_call(user_id)} :
        /\ CACHE' = call.cache
        /\ KIWI_INSTANCE' = call.kiwi
        /\ WHITELIST' = call.whitelist
        /\ ret' = call_record("full_analysis", user_id, call)
        /\ UNCHANGED <<sheet, memory_store, is_connected, now, env, threads, locks>>

\* callbacks.update_wordcloud: the archive page asks for the analysis and adds the
\* similar users' words to the mapping it was handed, which is the cached object
update_wordcloud(user_id) ==
    \E call \in {full_analysis_call(user_id)} :
    LET key == cache_key(user_id)
        main_notes == dict_keys(call.result.main_expressions)
        shown == [similar_wordcloud |-> get_similar_users_memo_wordcloud(user_id, main_notes)]
                 @@ call.result
        parses == call.parsed \/ similar_users_parses(user_id, main_notes)
    IN  IF call.result = NoneVal
        THEN /\ CACHE' = call.cache
             /\ ret' = [op |-> "update_wordcloud", user_id |-> user_id, result |-> NoneVal]
             /\ UNCHANGED <<sheet, memory_store, is_connected, now, KIWI_INSTANCE,
                            WHITELIST, env, threads, locks>>
        ELSE /\ CACHE' = [call.cache EXCEPT ![key].value = shown]
             /\ KIWI_INSTANCE' = IF parses THEN KIWI_after_parse ELSE KIWI_INSTANCE
             /\ WHITELIST' = IF parses THEN WHITELIST_after_parse ELSE WHITELIST
             /\ ret' = [op |-> "update_wordcloud", user_id |-> user_id, result |-> shown]
             /\ UNCHANGED <<sheet, memory_store, is_connected, now, env, threads, locks>>

analyze_recent_taste_trend(user_id, n) ==
    /\ \E records \in {get_user_records(user_id)} :
          ret' = [op |-> "recent_trend", user_id |-> user_id, n |-> n,
                  result |-> recent_taste_trend(records, n),
                  records |-> records,
                  weighted_counts |->
                      IF trend_too_few(records) THEN <<>>
                      ELSE weighted_counts(filtered_records(records, n)),
                  visible_count |-> nondeleted_count(user_id)]
    /\ UNCHANGED <<sheet, memory_store, is_connected, CACHE, now, KIWI_INSTANCE,
                   WHITELIST, env, threads, locks>>

-----------------------------------------------------------------------------
(* The record operations of the public API                                  *)

save_whiskey_record(user_id, input) ==
    LET record == new_record(user_id, input)
    IN  /\ Len(sheet) < MaxRows /\ Len(memory_store) < MaxRows
        /\ sheet' = sheet_save(record)[2]
        /\ memory_store' = save_to_memory(record)
        /\ ret' = [op |-> "save"]
        /\ UNCHANGED <<is_connected, CACHE, now, KIWI_INSTANCE, WHITELIST, env, threads, locks>>

update_whiskey_record(user_id, opened, input) ==
    LET record == edited_record(user_id, opened, input)
    IN  /\ sheet' = sheet_update(record)[2]
        /\ memory_store' = memory_update(record)
        /\ ret' = [op |-> "update"]
        /\ UNCHANGED <<is_connected, CACHE, now, KIWI_INSTANCE, WHITELIST, env, threads, locks>>

\* a variant that drops the user's cached analysis when a record is deleted
soft_delete_record_invalidating(record_id, user_id) ==
    /\ sheet' = sheet_soft_delete(record_id, user_id)[2]
    /\ memory_store' = memory_soft_delete(record_id, user_id)
    /\ CACHE' = [k \in DOMAIN CACHE \ {cache_key(user_id)} |-> CACHE[k]]
    /\ ret' = [op |-> "soft_delete"]
    /\ UNCHANGED <<is_connected, now, KIWI_INSTANCE, WHITELIST, env, threads, locks>>

soft_delete_record(record_id, user_id) ==
    /\ sheet' = sheet_soft_delete(record_id, user_id)[2]
    /\ memory_store' = memory_soft_delete(record_id, user_id)
    /\ ret' = [op |-> "soft_delete"]
    /\ UNCHANGED <<is_connected, CACHE, now, KIWI_INSTANCE, WHITELIST, env, threads, locks>>

\* reads the user's records and writes the users worksheet, which holds no record
update_user_stats(user_id) ==
    /\ ret' = [op |-> "update_user_stats"]
    /\ UNCHANGED <<sheet, memory_store, is_connected, CACHE, now, KIWI_INSTANCE,
                   WHITELIST, env, threads, locks>>

\* time matters to the cache alone, and only as the age of an entry
Tick ==
    /\ DOMAIN CACHE # {}
    /\ now + TickStep <= MaxTime
    /\ now' = now + TickStep
    /\ UNCHANGED <<sheet, memory_store, is_connected, CACHE, KIWI_INSTANCE, WHITELIST,
                   env, ret, threads, locks>>

-----------------------------------------------------------------------------
(* The journal: records are saved, edited and deleted while analyses run     *)

Init ==
    /\ sheet = <<>>
    /\ memory_store = <<>>
    /\ is_connected \in BOOLEAN
    /\ CACHE = clear_cache
    /\ now = 0
    /\ KIWI_INSTANCE = NoneVal
    /\ WHITELIST = NoneVal
    /\ env \in Envs
    /\ ret = NoCall
    /\ threads = [t \in Threads |-> IdleThread]
    /\ locks = FreeLocks

rows_of(user_id) ==
    LET listed == all_rows_records
    IN  Cardinality({i \in 1..Len(listed) : listed[i].user_id = user_id})

deleted_rows ==
    LET listed == all_rows_records
    IN  Cardinality({i \in 1..Len(listed) : startswith_deleted(listed[i].memo)})

Save ==
    \E u \in Users, input \in SaveInputs :
        /\ u = Analysed \/ rows_of(u) < MaxOtherRows
        /\ save_whiskey_record(u, input)

\* the save form in edit mode: the session keeps the record that was opened, so
\* the record may have been soft-deleted since it was opened
Update ==
    \E listed \in {all_rows_records} :
        \E i \in 1..Len(listed), input \in SaveInputs :
            update_whiskey_record(listed[i].user_id, listed[i], input)

\* the delete button of a record listed on somebody's archive page
SoftDelete ==
    \E listed \in {all_rows_records} :
        /\ deleted_rows < MaxDeleted
        /\ \E u \in Users : \E i \in 1..Len(listed) :
              /\ ~startswith_deleted(listed[i].memo)
              /\ soft_delete_record(listed[i].id, u)

\* the statistics the callbacks refresh after a save or a delete
UpdateStats == \E u \in Users : update_user_stats(u)

FullAnalysisOf(u) == get_user_taste_analysis(u)

FullAnalysis == \E u \in Users : FullAnalysisOf(u)

ArchivePage == \E u \in Users : update_wordcloud(u)

RecentTrendOf(u) == \E n \in TrendNs : analyze_recent_taste_trend(u, n)

RecentTrend == \E u \in Users : RecentTrendOf(u)

Next ==
    \/ Save
    \/ Update
    \/ SoftDelete
    \/ UpdateStats
    \/ FullAnalysis
    \/ ArchivePage
    \/ Tick

Spec == Init /\ [][Next]_vars

\* the journal with the home page's recent-trend card
NextJournal ==
    \/ Save
    \/ Update
    \/ SoftDelete
    \/ RecentTrend

SpecJournal == Init /\ [][NextJournal]_vars

-----------------------------------------------------------------------------
(* The analysers over a worksheet of varied records, read after a restart    *)

AnalysisRows == 5

TrendShapes ==
    {[taste_notes |-> <<"peaty", "spicy">>, rating |-> 5, memo |-> <<"smoky", "lingers">>],
     [taste_notes |-> <<"spicy">>, rating |-> 4, memo |-> <<"whiskey", "vanilla">>],
     [taste_notes |-> <<"peaty">>, rating |-> 3, memo |-> <<>>],
     [taste_notes |-> <<>>, rating |-> 3, memo |-> <<"very", "x">>],
     [taste_notes |-> <<"spicy">>, rating |-> 2, memo |-> <<"oak">>],
     [taste_notes |-> <<"sweet">>, rating |-> NotDigits, memo |-> <<"islay">>]}

FullShapes ==
    {[taste_notes |-> <<"peaty", "spicy">>, rating |-> 5, memo |-> <<"smoky", "lingers">>],
     [taste_notes |-> <<"spicy">>, rating |-> 4, memo |-> <<"whiskey", "vanilla">>],
     [taste_notes |-> <<"peaty">>, rating |-> 3, memo |-> <<"very", "x">>],
     [taste_notes |-> <<"spicy">>, rating |-> 2, memo |-> <<"oak">>],
     [taste_notes |-> <<"peaty", "spicy">>, rating |-> 1, memo |-> <<>>],
     [taste_notes |-> <<"sweet">>, rating |-> NotDigits, memo |-> <<"islay">>]}

shaped_row(i, shape) ==
    [timestamp |-> i, user_id |-> Analysed, whiskey_name |-> "ardbeg",
     taste_notes |-> shape.taste_notes, rating |-> shape.rating, memo |-> shape.memo,
     keyword |-> <<>>]

InitShaped(Shapes) ==
    /\ \E shapes \in [1..AnalysisRows -> Shapes] :
          sheet = [i \in 1..AnalysisRows |-> shaped_row(i, shapes[i])]
    /\ memory_store = <<>>
    /\ is_connected = TRUE
    /\ CACHE = clear_cache
    /\ now = 0
    /\ KIWI_INSTANCE = NoneVal
    /\ WHITELIST = NoneVal
    /\ env \in Envs
    /\ ret = NoCall
    /\ threads = [t \in Threads |-> IdleThread]
    /\ locks = FreeLocks

InitTrend == InitShaped(TrendShapes)

NextTrend == RecentTrendOf(Analysed)

SpecTrend == InitTrend /\ [][NextTrend]_vars

InitFull == InitShaped(FullShapes)

NextFull == FullAnalysisOf(Analysed)

SpecFull == InitFull /\ [][NextFull]_vars

-----------------------------------------------------------------------------
(* cache_utils on its own: callers get, set and clear while the clock runs   *)

CacheKeys == {cache_key(u) : u \in Users}

CacheValues == {[kind |-> "result", total_count |-> MinRecords],
                [kind |-> "result", total_count |-> MinRecords + 1]}

\* the instants of time.time() looked at: around one TTL and around two
CacheTimes ==
    {0, 1, CACHE_TTL - 1, CACHE_TTL, CACHE_TTL + 1, 2 * CACHE_TTL - 1, 2 * CACHE_TTL}

NoEntry == [kind |-> "absent"]

GetCache(key) ==
    /\ CACHE' = CACHE_after_get(key)
    /\ ret' = [op |-> "get_cache", key |-> key, result |-> get_cache(key), at |-> now,
               entry |-> IF key \in DOMAIN CACHE THEN CACHE[key] ELSE NoEntry]
    /\ UNCHANGED <<sheet, memory_store, is_connected, now, KIWI_INSTANCE, WHITELIST, env, threads, locks>>

SetCache(key, value) ==
    /\ CACHE' = set_cache(CACHE, key, value)
    /\ ret' = [op |-> "set_cache", key |-> key, value |-> value, at |-> now]
    /\ UNCHANGED <<sheet, memory_store, is_connected, now, KIWI_INSTANCE, WHITELIST, env, threads, locks>>

ClearCache ==
    /\ CACHE' = clear_cache
    /\ ret' = [op |-> "clear_cache"]
    /\ UNCHANGED <<sheet, memory_store, is_connected, now, KIWI_INSTANCE, WHITELIST, env, threads, locks>>

CacheTick ==
    /\ \E t \in CacheTimes :
          /\ t > now
          /\ now' = t
    /\ UNCHANGED <<sheet, memory_store, is_connected, CACHE, KIWI_INSTANCE, WHITELIST,
                   env, ret, threads, locks>>

InitCache ==
    /\ sheet = <<>>
    /\ memory_store = <<>>
    /\ is_connected = FALSE
    /\ CACHE = clear_cache
    /\ now = 0
    /\ KIWI_INSTANCE = NoneVal
    /\ WHITELIST = NoneVal
    /\ env \in Envs
    /\ ret = NoCall
    /\ threads = [t \in Threads |-> IdleThread]
    /\ locks = FreeLocks

NextCache ==
    \/ \E key \in CacheKeys : GetCache(key)
    \/ \E key \in CacheKeys, value \in CacheValues : SetCache(key, value)
    \/ ClearCache
    \/ CacheTick

SpecCache == InitCache /\ [][NextCache]_vars

-----------------------------------------------------------------------------
(* cache_utils called from several threads: get_cache is four steps, each a  *)
(* dictionary operation or a comparison, and another thread may run between  *)
(* any two of them; set_cache and clear_cache are one dictionary operation   *)

SharedKey == cache_key(Analysed)

cache_shared == <<sheet, memory_store, is_connected, KIWI_INSTANCE, WHITELIST, env, ret, locks>>

CallGetCache(t) ==
    /\ threads[t].pc = "idle"
    /\ threads' = [threads EXCEPT ![t] = [IdleThread EXCEPT !.pc = "get_in", !.op = "get_cache"]]
    /\ UNCHANGED <<CACHE, now>>
    /\ UNCHANGED cache_shared

\* if key in _CACHE:
get_cache_in(t) ==
    /\ threads[t].pc = "get_in"
    /\ threads' = [threads EXCEPT ![t].pc =
                      IF SharedKey \in DOMAIN CACHE THEN "get_read" ELSE "returned"]
    /\ UNCHANGED <<CACHE, now>>
    /\ UNCHANGED cache_shared

\* value, timestamp = _CACHE[key]: KeyError when the key has gone meanwhile
get_cache_read(t) ==
    /\ threads[t].pc = "get_read"
    /\ threads' = IF SharedKey \in DOMAIN CACHE
                  THEN [threads EXCEPT ![t].pc = "get_check", ![t].local = CACHE[SharedKey]]
                  ELSE [threads EXCEPT ![t].pc = "raised"]
    /\ UNCHANGED <<CACHE, now>>
    /\ UNCHANGED cache_shared

\* if time.time() - timestamp < _CACHE_TTL: return value; "at_check" is no part
\* of the program: it keeps what the mapping held for the key at this moment
get_cache_check(t) ==
    /\ threads[t].pc = "get_check"
    /\ threads' = IF now - threads[t].local.timestamp < CACHE_TTL
                  THEN [threads EXCEPT ![t].pc = "returned",
                                       ![t].result = threads[t].local.value]
                  ELSE [threads EXCEPT ![t].pc = "get_del",
                                       ![t].at_check = IF SharedKey \in DOMAIN CACHE
                                                       THEN CACHE[SharedKey] ELSE NoEntry]
    /\ UNCHANGED <<CACHE, now>>
    /\ UNCHANGED cache_shared

\* del _CACHE[key], then return None: KeyError when the key has gone meanwhile;
\* "evicted" is no part of the program: it keeps the entry that was removed
get_cache_del(t) ==
    /\ threads[t].pc = "get_del"
    /\ IF SharedKey \in DOMAIN CACHE
       THEN /\ CACHE' = [k \in DOMAIN CACHE \ {SharedKey} |-> CACHE[k]]
            /\ threads' = [threads EXCEPT ![t].pc = "returned",
                                          ![t].evicted = CACHE[SharedKey]]
       ELSE /\ CACHE' = CACHE
            /\ threads' = [threads EXCEPT ![t].pc = "raised"]
    /\ UNCHANGED now
    /\ UNCHANGED cache_shared

CallSetCache(t, value) ==
    /\ threads[t].pc = "idle"
    /\ CACHE' = set_cache(CACHE, SharedKey, value)
    /\ threads' = [threads EXCEPT ![t] = [IdleThread EXCEPT !.pc = "returned", !.op = "set_cache"]]
    /\ UNCHANGED now
    /\ UNCHANGED cache_shared

CallClearCache(t) ==
    /\ threads[t].pc = "idle"
    /\ CACHE' = clear_cache
    /\ threads' = [threads EXCEPT ![t] = [IdleThread EXCEPT !.pc = "returned", !.op = "clear_cache"]]
    /\ UNCHANGED now
    /\ UNCHANGED cache_shared

\* the thread is given its next request
NextRequest(t) ==
    /\ threads[t].pc \in {"returned", "raised"}
    /\ threads' = [threads EXCEPT ![t] = IdleThread]
    /\ UNCHANGED <<CACHE, now>>
    /\ UNCHANGED cache_shared

NextCacheThreads ==
    \/ \E t \in Threads :
          \/ CallGetCache(t)
          \/ get_cache_in(t)
          \/ get_cache_read(t)
          \/ get_cache_check(t)
          \/ get_cache_del(t)
          \/ \E value \in CacheValues : CallSetCache(t, value)
          \/ CallClearCache(t)
          \/ NextRequest(t)
    \/ Tick

SpecCacheThreads == InitCache /\ [][NextCacheThreads]_vars

-----------------------------------------------------------------------------
(* _get_kiwi and _get_whitelist called from several threads: the check, the  *)
(* lock, the check again, the construction, the return                       *)

singleton_shared == <<sheet, memory_store, is_connected, CACHE, now, env, ret>>

at(t, pc) == threads[t].pc = pc

goto(t, pc) == [threads EXCEPT ![t].pc = pc]

CallGetKiwi(t) ==
    /\ at(t, "idle")
    /\ threads' = [threads EXCEPT ![t] = [IdleThread EXCEPT !.pc = "kiwi_first", !.op = "get_kiwi"]]
    /\ UNCHANGED <<KIWI_INSTANCE, WHITELIST, locks>>
    /\ UNCHANGED singleton_shared

\* if _KIWI_INSTANCE is None:
kiwi_first_check(t) ==
    /\ at(t, "kiwi_first")
    /\ threads' = goto(t, IF KIWI_INSTANCE = NoneVal THEN "kiwi_lock" ELSE "kiwi_return")
    /\ UNCHANGED <<KIWI_INSTANCE, WHITELIST, locks>>
    /\ UNCHANGED singleton_shared

\* with _KIWI_LOCK:
kiwi_acquire(t) ==
    /\ at(t, "kiwi_lock")
    /\ locks.KIWI_LOCK = Unlocked
    /\ locks' = [locks EXCEPT !.KIWI_LOCK = t]
    /\ threads' = goto(t, "kiwi_second")
    /\ UNCHANGED <<KIWI_INSTANCE, WHITELIST>>
    /\ UNCHANGED singleton_shared

\* a variant without the check under the lock
kiwi_assumed_missing == TRUE

\* if _KIWI_INSTANCE is None:  (under the lock)
kiwi_still_missing == KIWI_INSTANCE = NoneVal

kiwi_second_check(t) ==
    /\ at(t, "kiwi_second")
    /\ IF kiwi_still_missing
       THEN /\ threads' = goto(t, "kiwi_build")
            /\ locks' = locks
       ELSE /\ threads' = goto(t, "kiwi_return")
            /\ locks' = [locks EXCEPT !.KIWI_LOCK = Unlocked]
    /\ UNCHANGED <<KIWI_INSTANCE, WHITELIST>>
    /\ UNCHANGED singleton_shared

\* _KIWI_INSTANCE = Kiwi(), or return None when kiwipiepy cannot be imported
kiwi_build(t) ==
    /\ at(t, "kiwi_build")
    /\ IF env.kiwi_installed
       THEN /\ KIWI_INSTANCE' = new_kiwi
            /\ threads' = goto(t, "kiwi_return")
       ELSE /\ KIWI_INSTANCE' = KIWI_INSTANCE
            /\ threads' = goto(t, "returned")
    /\ locks' = [locks EXCEPT !.KIWI_LOCK = Unlocked]
    /\ UNCHANGED WHITELIST
    /\ UNCHANGED singleton_shared

\* return _KIWI_INSTANCE
kiwi_return(t) ==
    /\ at(t, "kiwi_return")
    /\ threads' = [threads EXCEPT ![t].pc = "returned", ![t].result = KIWI_INSTANCE]
    /\ UNCHANGED <<KIWI_INSTANCE, WHITELIST, locks>>
    /\ UNCHANGED singleton_shared

CallGetWhitelist(t) ==
    /\ at(t, "idle")
    /\ threads' = [threads EXCEPT ![t] = [IdleThread EXCEPT !.pc = "whitelist_first",
                                                            !.op = "get_whitelist"]]
    /\ UNCHANGED <<KIWI_INSTANCE, WHITELIST, locks>>
    /\ UNCHANGED singleton_shared

\* if _WHITELIST is None:
whitelist_first_check(t) ==
    /\ at(t, "whitelist_first")
    /\ threads' = goto(t, IF WHITELIST = NoneVal THEN "whitelist_lock" ELSE "whitelist_return")
    /\ UNCHANGED <<KIWI_INSTANCE, WHITELIST, locks>>
    /\ UNCHANGED singleton_shared

\* with _WHITELIST_LOCK:
whitelist_acquire(t) ==
    /\ at(t, "whitelist_lock")
    /\ locks.WHITELIST_LOCK = Unlocked
    /\ locks' = [locks EXCEPT !.WHITELIST_LOCK = t]
    /\ threads' = goto(t, "whitelist_second")
    /\ UNCHANGED <<KIWI_INSTANCE, WHITELIST>>
    /\ UNCHANGED singleton_shared

\* if _WHITELIST is None:  (under the lock)
whitelist_still_missing == WHITELIST = NoneVal

whitelist_second_check(t) ==
    /\ at(t, "whitelist_second")
    /\ IF whitelist_still_missing
       THEN /\ threads' = goto(t, "whitelist_build")
            /\ locks' = locks
       ELSE /\ threads' = goto(t, "whitelist_return")
            /\ locks' = [locks EXCEPT !.WHITELIST_LOCK = Unlocked]
    /\ UNCHANGED <<KIWI_INSTANCE, WHITELIST>>
    /\ UNCHANGED singleton_shared

\* _WHITELIST = set(row['word'] for row in reader), or set()
whitelist_build(t) ==
    /\ at(t, "whitelist_build")
    /\ WHITELIST' = new_whitelist
    /\ threads' = goto(t, "whitelist_return")
    /\ locks' = [locks EXCEPT !.WHITELIST_LOCK = Unlocked]
    /\ UNCHANGED KIWI_INSTANCE
    /\ UNCHANGED singleton_shared

\* return _WHITELIST
whitelist_return(t) ==
    /\ at(t, "whitelist_return")
    /\ threads' = [threads EXCEPT ![t].pc = "returned", ![t].result = WHITELIST]
    /\ UNCHANGED <<KIWI_INSTANCE, WHITELIST, locks>>
    /\ UNCHANGED singleton_shared

\* the thread is given its next request
NextCaller(t) ==
    /\ at(t, "returned")
    /\ threads' = [threads EXCEPT ![t] = IdleThread]
    /\ UNCHANGED <<KIWI_INSTANCE, WHITELIST, locks>>
    /\ UNCHANGED singleton_shared

SingletonEnvs ==
    {[kiwi_installed |-> installed, whitelist_file |-> file,
      whitelist_words |-> {"smoky", "vanilla"}, faults |-> {}] :
        installed \in BOOLEAN, file \in {"present", "missing"}}

InitSingletons ==
    /\ sheet = <<>>
    /\ memory_store = <<>>
    /\ is_connected = FALSE
    /\ CACHE = clear_cache
    /\ now = 0
    /\ KIWI_INSTANCE = NoneVal
    /\ WHITELIST = NoneVal
    /\ env \in SingletonEnvs
    /\ ret = NoCall
    /\ threads = [t \in Threads |-> IdleThread]
    /\ locks = FreeLocks

NextSingletons ==
    \E t \in Threads :
        \/ CallGetKiwi(t)
        \/ kiwi_first_check(t)
        \/ kiwi_acquire(t)
        \/ kiwi_second_check(t)
        \/ kiwi_build(t)
        \/ kiwi_return(t)
        \/ CallGetWhitelist(t)
        \/ whitelist_first_check(t)
        \/ whitelist_acquire(t)
        \/ whitelist_second_check(t)
        \/ whitelist_build(t)
        \/ whitelist_return(t)
        \/ NextCaller(t)

SpecSingletons == InitSingletons /\ [][NextSingletons]_vars

-----------------------------------------------------------------------------
(* _parse_memo_text called for lists of memos, in processes that differ in    *)
(* what is installed; the whitelist file may be put in place or taken away    *)
(* while the process runs                                                     *)

MaxMemos == 2

\* memo texts, a word at a time
Memos ==
    {<<>>,
     <<DelMark, "smoky", "vanilla">>,
     <<"smoky", "lingers", "smoky">>,
     <<"x", "x", "whiskey", "whiskey", "very", "oak", "oak">>,
     <<"vanilla", "islay", "lingers">>}

RECURSIVE ListsUpTo(_, _)
ListsUpTo(S, k) ==
    IF k = 0 THEN {<<>>}
    ELSE ListsUpTo(S, k - 1) \cup
         {Append(q, x) : q \in {l \in ListsUpTo(S, k - 1) : Len(l) = k - 1}, x \in S}

MemoLists == ListsUpTo(Memos, MaxMemos)

WordEnvs ==
    {[kiwi_installed |-> installed, whitelist_file |-> file,
      whitelist_words |-> {"smoky", "vanilla", "linger", "x", "whiskey"},
      faults |-> {}] :
        installed \in BOOLEAN, file \in {"present", "missing", "unreadable"}}

\* what a call of _parse_memo_text leaves in ret: the list, the mapping returned,
\* the whitelist the call counted with (None when the tokenizer was missing), the
\* whitelist it found, and whether the file was there when it was made
word_frequencies(memo_list) ==
    /\ ret' = [op |-> "word_frequencies", memo_list |-> memo_list,
               result |-> parse_memo_text(memo_list),
               whitelist |-> WHITELIST_after_parse,
               loaded_before |-> WHITELIST,
               whitelist_file |-> env.whitelist_file]
    /\ KIWI_INSTANCE' = KIWI_after_parse
    /\ WHITELIST' = WHITELIST_after_parse
    /\ UNCHANGED <<sheet, memory_store, is_connected, CACHE, now, env, threads, locks>>

WordFrequencies == \E memo_list \in MemoLists : word_frequencies(memo_list)

\* outside the program: whiskey_whitelist.csv is put in place or removed
WhitelistFileChanges ==
    /\ \E file \in {"present", "missing"} :
          /\ file # env.whitelist_file
          /\ env' = [env EXCEPT !.whitelist_file = file]
    /\ UNCHANGED <<sheet, memory_store, is_connected, CACHE, now, KIWI_INSTANCE, WHITELIST,
                   ret, threads, locks>>

InitWords ==
    /\ sheet = <<>>
    /\ memory_store = <<>>
    /\ is_connected = FALSE
    /\ CACHE = clear_cache
    /\ now = 0
    /\ KIWI_INSTANCE = NoneVal
    /\ WHITELIST = NoneVal
    /\ env \in WordEnvs
    /\ ret = NoCall
    /\ threads = [t \in Threads |-> IdleThread]
    /\ locks = FreeLocks

NextWords ==
    \/ WordFrequencies
    \/ WhitelistFileChanges

SpecWords == InitWords /\ [][NextWords]_vars

-----------------------------------------------------------------------------
(* The community word clouds over a store of varied records of several users *)

CommunityRows == 2

\* what the rows differ in: the owner, the memo, and the product with its notes
CommunityProducts ==
    {[whiskey_name |-> "ardbeg", taste_notes |-> <<"peaty">>],
     [whiskey_name |-> "Ardbeg", taste_notes |-> <<"spicy", "sweet">>],
     [whiskey_name |-> "ardbeg", taste_notes |-> <<>>]}

CommunityMemos ==
    {<<>>, <<DelMark, "smoky">>, <<"smoky", "lingers">>, <<"vanilla", "x">>}

CommunityShapes ==
    {[user_id |-> u, whiskey_name |-> p.whiskey_name, taste_notes |-> p.taste_notes,
      memo |-> memo] : u \in Users, p \in CommunityProducts, memo \in CommunityMemos}

community_row(i, shape) ==
    [timestamp |-> i, user_id |-> shape.user_id, whiskey_name |-> shape.whiskey_name,
     taste_notes |-> shape.taste_notes, rating |-> MaxRating, memo |-> shape.memo,
     keyword |-> <<>>]

community_record(i, shape) ==
    [id |-> <<"f", i>>, user_id |-> shape.user_id, whiskey_name |-> shape.whiskey_name,
     taste_notes |-> shape.taste_notes, rating |-> MaxRating, memo |-> shape.memo,
     timestamp |-> i]

ReferenceTags == {<<>>, <<"peaty">>, <<"sweet", "peaty">>}

ProductNames == {"ardbeg", "Ardbeg", "lagavulin"}

\* get_similar_users_memo_wordcloud as an entry point: ret keeps the memos the
\* call handed to _parse_memo_text
similar_users_wordcloud(user_id, user_notes) ==
    /\ ret' = [op |-> "similar_users_wordcloud", user_id |-> user_id,
               reference_tags |-> user_notes,
               result |-> get_similar_users_memo_wordcloud(user_id, user_notes),
               memos |-> IF user_notes = <<>> THEN <<>>
                         ELSE similar_memos(user_id, user_notes)]
    /\ KIWI_INSTANCE' = IF similar_users_parses(user_id, user_notes)
                        THEN KIWI_after_parse ELSE KIWI_INSTANCE
    /\ WHITELIST' = IF similar_users_parses(user_id, user_notes)
                    THEN WHITELIST_after_parse ELSE WHITELIST
    /\ UNCHANGED <<sheet, memory_store, is_connected, CACHE, now, env, threads, locks>>

SimilarUsersWordcloud ==
    \E u \in Users, tags \in ReferenceTags : similar_users_wordcloud(u, tags)

\* str.lower() over the product names in use
lower(name) == IF name = "Ardbeg" THEN "ardbeg" ELSE name

\* a variant that matches product names whatever their case
product_name_matches_any_case(record_name, whiskey_name) ==
    lower(record_name) = lower(whiskey_name)

\* record.get('whiskey_name') != whiskey_name: continue
product_name_matches(record_name, whiskey_name) == record_name = whiskey_name

product_review_memos(user_id, whiskey_name) ==
    memos_of(SelectSeq(get_all_records,
        LAMBDA r : /\ r.user_id # user_id
                   /\ product_name_matches(r.whiskey_name, whiskey_name)
                   /\ r.memo # <<>> /\ ~startswith_deleted(r.memo)))

NoReviews == [wordcloud |-> EmptyDict, count |-> 0, has_data |-> FALSE]

get_product_reviews_wordcloud(user_id, whiskey_name) ==
    LET memos == product_review_memos(user_id, whiskey_name)
    IN  IF memos = <<>> THEN NoReviews
        ELSE [wordcloud |-> parse_memo_text(memos), count |-> Len(memos), has_data |-> TRUE]

product_reviews_wordcloud(user_id, whiskey_name) ==
    /\ ret' = [op |-> "product_reviews_wordcloud", user_id |-> user_id,
               whiskey_name |-> whiskey_name,
               result |-> get_product_reviews_wordcloud(user_id, whiskey_name)]
    /\ KIWI_INSTANCE' = IF product_review_memos(user_id, whiskey_name) # <<>>
                        THEN KIWI_after_parse ELSE KIWI_INSTANCE
    /\ WHITELIST' = IF product_review_memos(user_id, whiskey_name) # <<>>
                    THEN WHITELIST_after_parse ELSE WHITELIST
    /\ UNCHANGED <<sheet, memory_store, is_connected, CACHE, now, env, threads, locks>>

ProductReviewsWordcloud ==
    \E u \in Users, name \in ProductNames : product_reviews_wordcloud(u, name)

\* the rows are in the worksheet of a connected process, or in the memory list
\* of one that never reached the spreadsheet
InitCommunity ==
    /\ is_connected \in BOOLEAN
    /\ \E shapes \in [1..CommunityRows -> CommunityShapes] :
          /\ sheet = IF is_connected
                     THEN [i \in 1..CommunityRows |-> community_row(i, shapes[i])]
                     ELSE <<>>
          /\ memory_store = IF is_connected THEN <<>>
                            ELSE [i \in 1..CommunityRows |-> community_record(i, shapes[i])]
    /\ CACHE = clear_cache
    /\ now = 0
    /\ KIWI_INSTANCE = NoneVal
    /\ WHITELIST = NoneVal
    /\ env \in Envs
    /\ ret = NoCall
    /\ threads = [t \in Threads |-> IdleThread]
    /\ locks = FreeLocks

NextCommunity ==
    \/ SimilarUsersWordcloud
    \/ ProductReviewsWordcloud

SpecCommunity == InitCommunity /\ [][NextCommunity]_vars

-----------------------------------------------------------------------------
(* The entry points in processes whose collaborators raise: the spreadsheet   *)
(* API on every read, the tokenizer on every memo                             *)

FaultEnvs ==
    {[kiwi_installed |-> TRUE, whitelist_file |-> "present",
      whitelist_words |-> {"smoky", "vanilla", "linger", "x", "whiskey"},
      faults |-> faults] : faults \in SUBSET {"worksheet", "analyze"}}

\* the records of the analysed user, as the save form wrote them
own_shape ==
    [user_id |-> Analysed, whiskey_name |-> "ardbeg", taste_notes |-> <<"peaty">>,
     memo |-> <<"smoky">>]

OtherShapes == {shape \in CommunityShapes : shape.user_id # Analysed}

fault_shapes(other) ==
    [i \in 1..AnalysisRows + 1 |-> IF i <= AnalysisRows THEN own_shape ELSE other]

\* the worksheet holds the rows; the memory list holds them too in the process
\* that saved them, and nothing after a restart
InitFaults ==
    /\ is_connected \in BOOLEAN
    /\ \E other \in OtherShapes, in_memory \in BOOLEAN :
          /\ sheet = [i \in 1..AnalysisRows + 1 |-> community_row(i, fault_shapes(other)[i])]
          /\ memory_store =
                IF in_memory
                THEN [i \in 1..AnalysisRows + 1 |-> community_record(i, fault_shapes(other)[i])]
                ELSE <<>>
    /\ CACHE = clear_cache
    /\ now = 0
    /\ KIWI_INSTANCE = NoneVal
    /\ WHITELIST = NoneVal
    /\ env \in FaultEnvs
    /\ ret = NoCall
    /\ threads = [t \in Threads |-> IdleThread]
    /\ locks = FreeLocks

\* lists with no memo that reaches the tokenizer, and with one that does
FaultMemoLists ==
    {<<>>, <<<<>>, <<DelMark, "smoky", "vanilla">>>>,
     <<<<DelMark, "smoky", "vanilla">>, <<"smoky", "lingers", "smoky">>>>}

NextFaults ==
    \/ RecentTrend
    \/ FullAnalysis
    \/ SimilarUsersWordcloud
    \/ ProductReviewsWordcloud
    \/ \E memo_list \in FaultMemoLists : word_frequencies(memo_list)

SpecFaults == InitFaults /\ [][NextFaults]_vars

-----------------------------------------------------------------------------
(* The entry points that draw word clouds, in processes with and without     *)
(* kiwipiepy                                                                  *)

DegradedEnvs ==
    {[kiwi_installed |-> installed, whitelist_file |-> "present",
      whitelist_words |-> {"smoky", "vanilla", "linger", "x", "whiskey"},
      faults |-> {}] : installed \in BOOLEAN}

InitDegraded ==
    /\ is_connected \in BOOLEAN
    /\ \E other \in OtherShapes, in_memory \in BOOLEAN :
          /\ sheet = [i \in 1..AnalysisRows + 1 |-> community_row(i, fault_shapes(other)[i])]
          /\ memory_store =
                IF in_memory
                THEN [i \in 1..AnalysisRows + 1 |-> community_record(i, fault_shapes(other)[i])]
                ELSE <<>>
    /\ CACHE = clear_cache
    /\ now = 0
    /\ KIWI_INSTANCE = NoneVal
    /\ WHITELIST = NoneVal
    /\ env \in DegradedEnvs
    /\ ret = NoCall
    /\ threads = [t \in Threads |-> IdleThread]
    /\ locks = FreeLocks

NextDegraded ==
    \/ FullAnalysis
    \/ ArchivePage
    \/ SimilarUsersWordcloud
    \/ ProductReviewsWordcloud
    \/ \E memo_list \in FaultMemoLists : word_frequencies(memo_list)

SpecDegraded == InitDegraded /\ [][NextDegraded]_vars


-----------------------------------------------------------------------------
(* add_record_keyword: the keyword cell (column J) of a record's row          *)

\* a cell's text, a symbol at a time: a run of letters, a comma or a blank
Comma == ","
Blank == " "

\* str.split(','): the pieces between the commas, empty pieces included
RECURSIVE split_commas(_)
split_commas(text) ==
    IF \A i \in 1..Len(text) : text[i] # Comma THEN <<text>>
    ELSE LET first == CHOOSE i \in 1..Len(text) :
                          text[i] = Comma /\ \A j \in 1..i - 1 : text[j] # Comma
         IN  <<SubSeq(text, 1, first - 1)>> \o split_commas(SubSeq(text, first + 1, Len(text)))

\* str.strip() of a piece
RECURSIVE strip_blanks(_)
strip_blanks(piece) ==
    IF piece = <<>> THEN piece
    ELSE IF Head(piece) = Blank THEN strip_blanks(Tail(piece))
    ELSE IF piece[Len(piece)] = Blank THEN strip_blanks(SubSeq(piece, 1, Len(piece) - 1))
    ELSE piece

\* ', '.join(keywords_list)
RECURSIVE join_commas(_)
join_commas(keywords_list) ==
    IF keywords_list = <<>> THEN <<>>
    ELSE IF Len(keywords_list) = 1 THEN keywords_list[1]
    ELSE keywords_list[1] \o <<Comma, Blank>> \o join_commas(Tail(keywords_list))

\* [k.strip() for k in current_keywords.split(',')]
keywords_list(current_keywords) ==
    LET pieces == split_commas(current_keywords)
    IN  [i \in 1..Len(pieces) |-> strip_blanks(pieces[i])]

\* a variant that looks for the record id alone
keyword_target_row_of_anyone(record_id, user_id) ==
    first_index({i \in 1..Len(sheet) : id_matches_row(record_id, sheet[i])})

\* the row searched for: the first with that record id and that user id
keyword_target_row(record_id, user_id) ==
    first_index({i \in 1..Len(sheet) :
                    /\ id_matches_row(record_id, sheet[i])
                    /\ sheet[i].user_id = user_id})

\* add_record_keyword: <<success, sheet afterwards>>
record_keyword_added(record_id, user_id, keyword) ==
    LET target_row == keyword_target_row(record_id, user_id)
    IN  IF ~is_connected \/ sheet = <<>> \/ target_row = 0 THEN <<FALSE, sheet>>
        ELSE LET current_keywords == sheet[target_row].keyword
                 listed == keywords_list(current_keywords)
             IN  IF current_keywords # <<>> /\ \E i \in 1..Len(listed) : listed[i] = keyword
                 THEN <<TRUE, sheet>>
                 ELSE <<TRUE, [sheet EXCEPT ![target_row].keyword =
                                  IF current_keywords # <<>>
                                  THEN join_commas(Append(listed, keyword))
                                  ELSE keyword]>>

MaxCellLen == 4

add_record_keyword(record_id, user_id, keyword) ==
    \E outcome \in {record_keyword_added(record_id, user_id, keyword)} :
        /\ \A i \in 1..Len(outcome[2]) : Len(outcome[2][i].keyword) <= MaxCellLen
        /\ sheet' = outcome[2]
        /\ ret' = [op |-> "add_record_keyword", record_id |-> record_id,
                   user_id |-> user_id, keyword |-> keyword, result |-> outcome[1],
                   before |-> sheet]
        /\ UNCHANGED <<memory_store, is_connected, CACHE, now, KIWI_INSTANCE, WHITELIST,
                       env, threads, locks>>

\* the word of the link that was followed, or one typed into the address
Keywords == {<<"smoky">>, <<"vanilla">>, <<"smoky", Blank>>, <<"oak", Comma, "malt">>}

KeywordRows == 2

\* record ids of the rows, and one of no row
KeywordRecordIds == {<<"ts", i>> : i \in 1..KeywordRows + 1}

AddRecordKeyword ==
    \E record_id \in KeywordRecordIds, u \in Users, keyword \in Keywords :
        add_record_keyword(record_id, u, keyword)

\* two rows saved by the form, of one user or of two; a process that never
\* reached the spreadsheet has no worksheet to look into
InitKeywords ==
    /\ is_connected \in BOOLEAN
    /\ \E owners \in [1..KeywordRows -> Users] :
          sheet = IF is_connected
                  THEN [i \in 1..KeywordRows |->
                           community_row(i, [user_id |-> owners[i], whiskey_name |-> "ardbeg",
                                             taste_notes |-> <<"peaty">>,
                                             memo |-> <<"smoky">>])]
                  ELSE <<>>
    /\ memory_store = <<>>
    /\ CACHE = clear_cache
    /\ now = 0
    /\ KIWI_INSTANCE = NoneVal
    /\ WHITELIST = NoneVal
    /\ env \in Envs
    /\ ret = NoCall
    /\ threads = [t \in Threads |-> IdleThread]
    /\ locks = FreeLocks

NextKeywords == AddRecordKeyword

SpecKeywords == InitKeywords /\ [][NextKeywords]_vars


-----------------------------------------------------------------------------
(* save_record called from several threads: the record is built, the rows of  *)
(* the worksheet are counted, the row after the last is written, the record   *)
(* is added to the memory list                                                *)

save_shared == <<is_connected, CACHE, now, KIWI_INSTANCE, WHITELIST, env, ret, locks>>

\* the timestamps of the records being saved
timestamps_in_flight ==
    {threads[t].local.record.timestamp : t \in {s \in Threads : threads[s].op = "save_record"}}

\* datetime.now() of a request: later than every record stored or being saved
request_timestamp ==
    LET taken == timestamps_in_flight \cup {next_timestamp - 1}
    IN  1 + CHOOSE m \in taken : \A other \in taken : other <= m

MaxSaveCalls == 3

\* save_record_with_loading builds record_data and calls save_whiskey_record
CallSaveRecord(t, user_id, input) ==
    /\ at(t, "idle")
    /\ request_timestamp <= MaxSaveCalls
    /\ threads' = [threads EXCEPT ![t] =
                      [IdleThread EXCEPT
                          !.pc = "save_count", !.op = "save_record",
                          !.local = [record |-> [new_record(user_id, input) EXCEPT
                                                    !.id = <<"f", request_timestamp>>,
                                                    !.timestamp = request_timestamp],
                                     next_row |-> 0]]]
    /\ UNCHANGED <<sheet, memory_store>>
    /\ UNCHANGED save_shared

\* values = self.whiskey_worksheet.get_all_values(); next_row = len(values) + 1
\* (row 1 is the header: data row k of the model is row k + 1 of the worksheet)
save_count_rows(t) ==
    /\ at(t, "save_count")
    /\ threads' = IF is_connected
                  THEN [threads EXCEPT ![t].pc = "save_write",
                                       ![t].local.next_row = Len(sheet) + 1]
                  ELSE [threads EXCEPT ![t].pc = "save_memory", ![t].result = FALSE]
    /\ UNCHANGED <<sheet, memory_store>>
    /\ UNCHANGED save_shared

\* self.whiskey_worksheet.update(f'A{next_row}:I{next_row}', [row_data]); return True
save_write_row(t) ==
    /\ at(t, "save_write")
    /\ LET next_row == threads[t].local.next_row
           written == row_of(threads[t].local.record)
       IN  sheet' = IF next_row > Len(sheet) THEN Append(sheet, written)
                    ELSE [sheet EXCEPT ![next_row] =
                             [written EXCEPT !.keyword = sheet[next_row].keyword]]
    /\ threads' = [threads EXCEPT ![t].pc = "save_memory", ![t].result = TRUE]
    /\ UNCHANGED memory_store
    /\ UNCHANGED save_shared

\* self._save_to_memory(record); return success
save_to_memory_step(t) ==
    /\ at(t, "save_memory")
    /\ memory_store' = save_to_memory(threads[t].local.record)
    /\ threads' = goto(t, "returned")
    /\ UNCHANGED sheet
    /\ UNCHANGED save_shared

\* the thread is given its next request
NextSaveRequest(t) ==
    /\ at(t, "returned")
    /\ threads' = [threads EXCEPT ![t] = IdleThread]
    /\ UNCHANGED <<sheet, memory_store>>
    /\ UNCHANGED save_shared

InitSaveThreads ==
    /\ sheet = <<>>
    /\ memory_store = <<>>
    /\ is_connected \in BOOLEAN
    /\ CACHE = clear_cache
    /\ now = 0
    /\ KIWI_INSTANCE = NoneVal
    /\ WHITELIST = NoneVal
    /\ env \in Envs
    /\ ret = NoCall
    /\ threads = [t \in Threads |-> IdleThread]
    /\ locks = FreeLocks

NextSaveThreads ==
    \E t \in Threads :
        \/ \E u \in Users, input \in SaveInputs : CallSaveRecord(t, u, input)
        \/ save_count_rows(t)
        \/ save_write_row(t)
        \/ save_to_memory_step(t)
        \/ NextSaveRequest(t)

SpecSaveThreads == InitSaveThreads /\ [][NextSaveThreads]_vars


-----------------------------------------------------------------------------
(* analyze_recent_taste_trend over records that give one tag every weight of  *)
(* the table, in every order                                                  *)

OrderShapes ==
    {[taste_notes |-> <<"peaty">>, rating |-> 5, memo |-> <<>>],
     [taste_notes |-> <<"peaty">>, rating |-> 4, memo |-> <<>>],
     [taste_notes |-> <<"peaty">>, rating |-> 3, memo |-> <<>>],
     [taste_notes |-> <<"spicy">>, rating |-> 4, memo |-> <<>>],
     [taste_notes |-> <<"spicy", "peaty">>, rating |-> 3, memo |-> <<>>]}

InitTrendOrder == InitShaped(OrderShapes)

NextTrendOrder == RecentTrendOf(Analysed)

SpecTrendOrder == InitTrendOrder /\ [][NextTrendOrder]_vars


-----------------------------------------------------------------------------
(* The journal of a browser in which a second user logs in: the session keeps *)
(* edit_mode_data, the record opened for editing, across the login            *)

\* the save form in edit mode, submitted by whoever is logged in now: the id and
\* the timestamp come from edit_mode_data, the user id from user_data
UpdateAfterLogin ==
    \E listed \in {all_rows_records} :
        \E u \in Users, i \in 1..Len(listed), input \in SaveInputs :
            update_whiskey_record(u, listed[i], input)

NextOwnership ==
    \/ Save
    \/ UpdateAfterLogin
    \/ SoftDelete

SpecOwnership == Init /\ [][NextOwnership]_vars


-----------------------------------------------------------------------------
(* _parse_memo_text with a tokenizer that raises, on every memo or on some    *)

WordFaultEnvs ==
    {[kiwi_installed |-> TRUE, whitelist_file |-> "present",
      whitelist_words |-> {"smoky", "vanilla", "linger", "x", "whiskey"},
      faults |-> faults] : faults \in SUBSET {"analyze", "analyze_memo"}}

InitWordFaults ==
    /\ sheet = <<>>
    /\ memory_store = <<>>
    /\ is_connected = FALSE
    /\ CACHE = clear_cache
    /\ now = 0
    /\ KIWI_INSTANCE = NoneVal
    /\ WHITELIST = NoneVal
    /\ env \in WordFaultEnvs
    /\ ret = NoCall
    /\ threads = [t \in Threads |-> IdleThread]
    /\ locks = FreeLocks

NextWordFaults == WordFrequencies

SpecWordFaults == InitWordFaults /\ [][NextWordFaults]_vars


-----------------------------------------------------------------------------
(* Properties                                                                *)

\* the user of the last call holds a record that was soft-deleted
caller_has_deleted_record ==
    \E i \in 1..Len(store_rows) :
        /\ store_rows[i].user_id = ret.user_id
        /\ startswith_deleted(store_rows[i].memo)

\* C1: analyze_recent_taste_trend returns None for every user who has fewer than
\* five non-deleted records, whatever saves, edits and soft-deletes came before
C1_RecentTrendNoneBelowFive ==
    (ret.op = "recent_trend" /\ ret.visible_count < MinRecords) => ret.result = NoneVal

\* a user with five rows, one of them soft-deleted, asks for the recent trend
C1_Witness ==
    /\ ret.op = "recent_trend"
    /\ ret.visible_count = MinRecords - 1
    /\ caller_has_deleted_record
    /\ ret.result = NoneVal

\* C2 as stated: get_user_taste_analysis returns None whenever the user has fewer
\* than five non-deleted records, at any time after earlier calls
C2_NoneBelowFiveAlways ==
    (ret.op = "full_analysis" /\ ret.visible_count < MinRecords) => ret.result = NoneVal

\* C2, amended: get_user_taste_analysis returns None whenever the user has fewer
\* than five non-deleted records and the cache held no unexpired entry for the
\* user when the call was made
C2_NoneBelowFiveUnlessCached ==
    (/\ ret.op = "full_analysis"
     /\ ret.visible_count < MinRecords
     /\ (ret.entry_age < 0 \/ ret.entry_age >= CACHE_TTL))
        => ret.result = NoneVal

\* a call made after a soft-delete took the user below five and after the entry
\* of an earlier call had expired
C2_Witness ==
    /\ ret.op = "full_analysis"
    /\ ret.visible_count = MinRecords - 1
    /\ ret.entry_age >= CACHE_TTL
    /\ caller_has_deleted_record
    /\ ret.result = NoneVal

\* --- what a recent-trend call should have weighed, worked out from the records
\* --- it read, apart from the code's own path

\* the records of the last call's window that are rated three stars or more
trend_basis ==
    LET window == [i \in 1..Min(ret.n, Len(ret.records)) |-> ret.records[i]]
    IN  SelectSeq(window, LAMBDA r : r.rating >= 3)

tags_of(records) ==
    UNION {{records[i].taste_notes[j] : j \in 1..Len(records[i].taste_notes)} :
              i \in 1..Len(records)}

carries(record, tag) ==
    Cardinality({j \in 1..Len(record.taste_notes) : record.taste_notes[j] = tag})

\* the weight table in tenths: 1.0, 0.8, 0.6, and 0.6 for a rating outside it
tenths_weight(rating) ==
    CASE rating = 5 -> 10 [] rating = 4 -> 8 [] rating = 3 -> 6
      [] rating = 2 -> 3 [] rating = 1 -> 1 [] OTHER -> 6

RECURSIVE tenths_of(_, _)
tenths_of(records, tag) ==
    IF records = <<>> THEN 0
    ELSE tenths_of(Tail(records), tag)
         + carries(Head(records), tag) * tenths_weight(Head(records).rating)

top_tag(records) ==
    CHOOSE t \in tags_of(records) :
        \A u \in tags_of(records) : tenths_of(records, t) >= tenths_of(records, u)

second_tenths(records) ==
    LET rest == tags_of(records) \ {top_tag(records)}
    IN  tenths_of(records, CHOOSE t \in rest :
                              \A u \in rest : tenths_of(records, t) >= tenths_of(records, u))

\* top >= 1.5 x second, in tenths
ratio_reached(records) ==
    2 * tenths_of(records, top_tag(records)) >= 3 * second_tenths(records)

\* C3: with two or more tags weighed, the verdict is is_clear_trend = true with
\* top_note the highest tag exactly when the highest score is at least 1.5 times
\* the second highest; otherwise it is is_clear_trend = false without a top_note
C3_ClearTrendIffRatio ==
    (/\ ret.op = "recent_trend"
     /\ Len(ret.records) >= MinRecords
     /\ Cardinality(tags_of(trend_basis)) >= 2)
        => IF ratio_reached(trend_basis)
           THEN /\ ret.result # NoneVal
                /\ ret.result.is_clear_trend
                /\ ret.result.top_note = top_tag(trend_basis)
           ELSE ret.result = no_clear_trend

RECURSIVE add_times(_, _, _)
add_times(score, weight, times) ==
    IF times = 0 THEN score ELSE add_times(FAdd(score, weight), weight, times - 1)

\* the weight a tag gathers from the given records, added up in their order
RECURSIVE float_score(_, _)
float_score(records, tag) ==
    IF records = <<>> THEN FZero
    ELSE LET last == records[Len(records)]
         IN  add_times(float_score(SubSeq(records, 1, Len(records) - 1), tag),
                       IF last.rating \in 3..MaxRating
                       THEN RATING_WEIGHTS[last.rating] ELSE Float06,
                       carries(last, tag))

\* C4: no record rated below three stars adds to any tag's accumulated weight:
\* each tag's weight comes from the records of the recent window rated three
\* stars or more that carry it, and from nothing else
C4_OnlyThreeStarsWeigh ==
    (ret.op = "recent_trend" /\ Len(ret.records) >= MinRecords)
        => /\ \A t \in tags_of(ret.records) :
                IF t \in tags_of(trend_basis)
                THEN /\ dict_has(ret.weighted_counts, t)
                     /\ dict_get(ret.weighted_counts, t, FZero) = float_score(trend_basis, t)
                ELSE ~dict_has(ret.weighted_counts, t)
           /\ \A i \in 1..Len(ret.weighted_counts) :
                ret.weighted_counts[i][1] \in tags_of(trend_basis)

\* the window holds a record rated below three stars whose tag has a weight
\* from other records
C4_Witness ==
    /\ ret.op = "recent_trend"
    /\ Len(ret.records) >= MinRecords
    /\ \E i \in 1..Min(ret.n, Len(ret.records)) :
          /\ ret.records[i].rating < 3
          /\ \E j \in 1..Len(ret.records[i].taste_notes) :
                dict_has(ret.weighted_counts, ret.records[i].taste_notes[j])

\* --- what a full analysis should hold, worked out from the worksheet rows

\* the caller's rows that are not soft-deleted, newest first (the worksheet of
\* SpecFull is in time order)
full_basis ==
    LET rows == SelectSeq(sheet, LAMBDA row : row.user_id = ret.user_id
                                              /\ ~startswith_deleted(row.memo))
    IN  [i \in 1..Len(rows) |-> rows[Len(rows) + 1 - i]]

in_bucket(bucket, rating) ==
    IF bucket = "main" THEN rating >= 4 ELSE rating <= 2

\* the double nearest to k/10, for k = 0, 1, 2, ...
TenthsAsDouble ==
    <<<<0, 0>>, <<6710886, 429496730>>, <<13421772, 858993460>>,
      <<20132659, 214748364>>, <<26843545, 644245096>>, <<33554432, 0>>,
      <<40265318, 429496728>>, <<46976204, 858993456>>, <<53687091, 214748368>>,
      <<60397977, 644245096>>, <<67108864, 0>>, <<73819750, 429496736>>,
      <<80530636, 858993456>>, <<87241523, 214748368>>, <<93952409, 644245088>>,
      <<100663296, 0>>, <<107374182, 429496736>>, <<114085068, 858993456>>,
      <<120795955, 214748368>>, <<127506841, 644245088>>, <<134217728, 0>>,
      <<140928614, 429496736>>, <<147639500, 858993472>>, <<154350387, 214748352>>,
      <<161061273, 644245088>>, <<167772160, 0>>, <<174483046, 429496736>>,
      <<181193932, 858993472>>, <<187904819, 214748352>>, <<194615705, 644245088>>,
      <<201326592, 0>>, <<208037478, 429496736>>, <<214748364, 858993472>>,
      <<221459251, 214748352>>, <<228170137, 644245088>>, <<234881024, 0>>,
      <<241591910, 429496736>>, <<248302796, 858993472>>, <<255013683, 214748352>>,
      <<261724569, 644245088>>, <<268435456, 0>>, <<275146342, 429496704>>,
      <<281857228, 858993472>>, <<288568115, 214748352>>, <<295279001, 644245120>>,
      <<301989888, 0>>, <<308700774, 429496704>>, <<315411660, 858993472>>,
      <<322122547, 214748352>>, <<328833433, 644245120>>, <<335544320, 0>>,
      <<342255206, 429496704>>, <<348966092, 858993472>>, <<355676979, 214748352>>,
      <<362387865, 644245120>>, <<369098752, 0>>, <<375809638, 429496704>>,
      <<382520524, 858993472>>, <<389231411, 214748352>>, <<395942297, 644245120>>,
      <<402653184, 0>>>>

\* the decimal sum, in tenths, of the table weights of a bucket's records
RECURSIVE bucket_tenths(_, _, _)
bucket_tenths(records, bucket, tag) ==
    IF records = <<>> THEN 0
    ELSE bucket_tenths(Tail(records), bucket, tag)
         + (IF in_bucket(bucket, Head(records).rating) /\ Head(records).rating \in 1..5
            THEN carries(Head(records), tag) * tenths_weight(Head(records).rating)
            ELSE 0)

\* the same sum as doubles added one after the other in the order of the records
RECURSIVE bucket_float(_, _, _)
bucket_float(records, bucket, tag) ==
    IF records = <<>> THEN FZero
    ELSE LET last == records[Len(records)]
             before == bucket_float(SubSeq(records, 1, Len(records) - 1), bucket, tag)
         IN  IF in_bucket(bucket, last.rating) /\ last.rating \in 1..5
             THEN add_times(before, RATING_WEIGHTS[last.rating], carries(last, tag))
             ELSE before

answered == ret.op = "full_analysis" /\ ret.result # NoneVal

\* C5 as stated: main_expressions[t] is the exact sum of the table weights of the
\* records rated four or more that carry t, sub_expressions[t] that of the
\* records rated two or less, and three-star records add to neither
C5_ExactSums ==
    answered =>
        \A t \in tags_of(full_basis) :
            /\ dict_get(ret.result.main_expressions, t, FZero)
                   = TenthsAsDouble[bucket_tenths(full_basis, "main", t) + 1]
            /\ dict_get(ret.result.sub_expressions, t, FZero)
                   = TenthsAsDouble[bucket_tenths(full_basis, "sub", t) + 1]

\* C5, amended: main_expressions[t] is the sum, added up in double precision in
\* the order of the records (newest first), of the table weights of the records
\* rated four or more that carry t, sub_expressions[t] that of the records rated
\* two or less, and three-star records add to neither
C5_FloatSums ==
    answered =>
        /\ \A t \in tags_of(full_basis) :
            /\ dict_get(ret.result.main_expressions, t, FZero)
                   = bucket_float(full_basis, "main", t)
            /\ dict_get(ret.result.sub_expressions, t, FZero)
                   = bucket_float(full_basis, "sub", t)
        /\ \A i \in 1..Len(ret.result.main_expressions) :
              ret.result.main_expressions[i][1] \in tags_of(full_basis)
        /\ \A i \in 1..Len(ret.result.sub_expressions) :
              ret.result.sub_expressions[i][1] \in tags_of(full_basis)

\* an analysis over records of every bucket: a tag carried by three four-star
\* records, by a three-star record and by a two-star record
C5_Witness ==
    /\ answered
    /\ bucket_tenths(full_basis, "main", "spicy") = 24
    /\ bucket_tenths(full_basis, "sub", "spicy") = 3
    /\ \E i \in 1..Len(full_basis) :
          full_basis[i].rating = 3 /\ carries(full_basis[i], "peaty") = 1
    /\ dict_get(ret.result.main_expressions, "peaty", FZero) = FZero

\* --- the cache round trip of get_user_taste_analysis

called == ret.op = "full_analysis"

\* the cache held an entry for the caller younger than the TTL when the call came
entry_unexpired == ret.entry_age >= 0 /\ ret.entry_age < CACHE_TTL

\* the answer comes from the cache, without the tokenizer, exactly when an
\* unexpired entry exists; otherwise it is worked out from the current records
recomputes_only_without_entry ==
    called =>
        /\ ret.from_cache <=> entry_unexpired
        /\ ret.from_cache => ~ret.parsed
        /\ ~ret.from_cache =>
              IF ret.visible_count < MinRecords THEN ret.result = NoneVal
              ELSE ret.parsed /\ ret.result.total_count = ret.visible_count

\* a call within the TTL returns the content the computing call returned
hit_returns_first_content ==
    (called /\ entry_unexpired) => ret.result = ret.inserted

\* C6: get_user_taste_analysis recomputes only when the cache holds no unexpired
\* entry for the user: a second call within the TTL returns the same content as
\* the first without invoking the tokenizer, and the first call after the TTL
\* recomputes from the current records
C6_CacheRoundTrip == recomputes_only_without_entry /\ hit_returns_first_content

\* --- writes and the cache

WriteOps == {"save", "update", "soft_delete", "update_user_stats"}

\* C8: the cached analysis is invalidated by time alone: a save, an edit, a
\* soft-delete or update_user_stats leaves the cache mapping as it
\* was, and a call within the TTL after such a write returns the entries that
\* were computed before it
C8_InvalidatedByTimeOnly ==
    /\ [][ret'.op \in WriteOps => CACHE' = CACHE]_vars
    /\ []((called /\ entry_unexpired)
             => \A k \in DOMAIN ret.inserted : ret.result[k] = ret.inserted[k])

\* a call answered from the cache after a record was saved: the answer counts
\* fewer records than the user now has
C8_Witness ==
    /\ called
    /\ entry_unexpired
    /\ ret.result # NoneVal
    /\ ret.result.total_count < ret.visible_count

\* --- the TTL of the cache

got == ret.op = "get_cache" /\ ret.entry # NoEntry

\* C7: a get returns the value of the key's last set exactly when less than 300
\* seconds have passed since that set; a get at 300 seconds or more returns None
\* and removes the entry; a set replaces the value and restarts the TTL from the
\* time of the set; a clear leaves no key
C7_TtlSemantics ==
    /\ [](got => /\ ret.entry.value = ret.entry.inserted
                 /\ ret.result = ret.entry.value <=> ret.at - ret.entry.timestamp < CACHE_TTL
                 /\ ret.at - ret.entry.timestamp < CACHE_TTL => CACHE[ret.key] = ret.entry
                 /\ ret.at - ret.entry.timestamp >= CACHE_TTL =>
                        ret.result = NoneVal /\ ret.key \notin DOMAIN CACHE)
    /\ []((ret.op = "get_cache" /\ ret.entry = NoEntry) => ret.result = NoneVal)
    /\ [](ret.op = "set_cache" => /\ ret.key \in DOMAIN CACHE
                                  /\ CACHE[ret.key].value = ret.value
                                  /\ CACHE[ret.key].timestamp = ret.at)
    /\ [](ret.op = "clear_cache" => DOMAIN CACHE = {})
    /\ [][\A k \in CacheKeys :
            (k \in DOMAIN CACHE /\ k \in DOMAIN CACHE' /\ CACHE'[k] # CACHE[k])
                => ret'.op = "set_cache" /\ ret'.key = k]_vars

\* a get exactly 300 seconds after the set: None, and the entry is gone
C7_Witness ==
    /\ got
    /\ ret.at - ret.entry.timestamp = CACHE_TTL
    /\ ret.result = NoneVal
    /\ ret.key \notin DOMAIN CACHE

\* --- the cache under threads

no_call_raises == \A t \in Threads : threads[t].pc # "raised"

\* the entry a get_cache removed is one the mapping held at its expiry check
no_lost_update ==
    \A t \in Threads :
        threads[t].evicted # NoneVal => threads[t].evicted = threads[t].at_check

\* C9: under every interleaving of get_cache, set_cache and clear_cache by several
\* threads on one key, no call fails with an error, and get_cache never removes
\* an entry that another thread stored after the expiry check
C9_ConcurrentCacheSafe == no_call_raises /\ no_lost_update

\* --- the singletons under threads

returned_from(t, op) == threads[t].pc = "returned" /\ threads[t].op = op

\* C10: under every interleaving of concurrent first callers the tokenizer and
\* the whitelist are each constructed at most once, exactly once when the
\* construction succeeds, and every caller that returns after a successful
\* construction holds that one instance
C10_ConstructedOnce ==
    /\ KIWI_INSTANCE # NoneVal => KIWI_INSTANCE.serial = 1
    /\ WHITELIST # NoneVal => WHITELIST.serial = 1
    /\ \A t \in Threads :
          /\ (returned_from(t, "get_kiwi") /\ env.kiwi_installed)
                => /\ threads[t].result # NoneVal
                   /\ threads[t].result = KIWI_INSTANCE
          /\ (returned_from(t, "get_kiwi") /\ ~env.kiwi_installed)
                => threads[t].result = NoneVal /\ KIWI_INSTANCE = NoneVal
          /\ returned_from(t, "get_whitelist")
                => /\ threads[t].result # NoneVal
                   /\ threads[t].result = WHITELIST

\* a race of first callers: one has built the tokenizer and returned with it,
\* the other, which also found none, now holds the lock
C10_Witness ==
    \E t, u \in Threads :
        /\ returned_from(t, "get_kiwi")
        /\ threads[t].result # NoneVal
        /\ threads[u].pc = "kiwi_second"
        /\ locks.KIWI_LOCK = u

\* --- the word counter

\* the word mappings the last call handed to its caller
wordclouds_returned ==
    IF ret.op = "word_frequencies" THEN {ret.result}
    ELSE {}

\* C11: no mapping returned by _parse_memo_text holds a word shorter than two
\* characters, a stopword, or a word that is not in the loaded whitelist,
\* however often the memos repeat it
C11_OnlyAdmittedWords ==
    \A cloud \in wordclouds_returned : \A word \in DOMAIN cloud :
        /\ Len(word) >= MinWordLen
        /\ word \notin STOPWORDS
        /\ WHITELIST # NoneVal /\ word \in WHITELIST.words

\* memos that repeat a one-letter word, a stopword and a word outside the
\* whitelist were counted next to a memo of admitted words
C11_Witness ==
    /\ ret.op = "word_frequencies"
    /\ ret.memo_list = <<<<"x", "x", "whiskey", "whiskey", "very", "oak", "oak">>,
                         <<"smoky", "lingers", "smoky">>>>
    /\ ret.result = ("smoky" :> 2) @@ ("linger" :> 1)

\* the memos that count: not empty, not marked as deleted
live_memos(memo_list) ==
    SelectSeq(memo_list, LAMBDA memo : memo # <<>> /\ memo[1] # DelMark)

\* the noun and verb tokens of the live memos that pass the word filter
retained_occurrences(memo_list, whitelist_words) ==
    LET live == live_memos(memo_list)
    IN  UNION {{<<i, j>> : j \in {k \in 1..Len(kiwi_analyze(live[i])) :
                    LET token == kiwi_analyze(live[i])[k]
                    IN  /\ token.tag \in {"NNG", "NNP", "VV"}
                        /\ Len(token.form) > 1
                        /\ token.form \notin STOPWORDS
                        /\ token.form \in whitelist_words}} : i \in 1..Len(live)}

form_at(memo_list, occurrence) ==
    kiwi_analyze(live_memos(memo_list)[occurrence[1]])[occurrence[2]].form

\* one count per retained occurrence of a surface form
occurrence_counts(memo_list, whitelist_words) ==
    LET found == retained_occurrences(memo_list, whitelist_words)
    IN  [word \in {form_at(memo_list, o) : o \in found} |->
            Cardinality({o \in found : form_at(memo_list, o) = word})]

\* C12: _parse_memo_text returns an empty mapping for an empty list, returns for
\* every list what it returns for the list without its empty and soft-deleted
\* memos, and counts one per retained noun or verb token of the memos left
C12_CountsLiveMemosOnly ==
    ret.op = "word_frequencies" =>
        /\ ret.memo_list = <<>> => ret.result = EmptyDict
        /\ ret.result = parse_memo_text(live_memos(ret.memo_list))
        /\ ret.result = IF KIWI_INSTANCE = NoneVal THEN EmptyDict
                        ELSE occurrence_counts(ret.memo_list, WHITELIST.words)

\* a soft-deleted memo full of whitelisted words was passed together with a live one
C12_Witness ==
    /\ ret.op = "word_frequencies"
    /\ ret.memo_list = <<<<DelMark, "smoky", "vanilla">>, <<"vanilla", "islay", "lingers">>>>
    /\ ret.result = ("vanilla" :> 1) @@ ("linger" :> 1)

\* --- the community word clouds

\* the positions of a set of rows, the newest row first
RECURSIVE newest_first(_)
newest_first(positions) ==
    IF positions = {} THEN <<>>
    ELSE LET last == CHOOSE i \in positions : \A j \in positions : j <= i
         IN  <<last>> \o newest_first(positions \ {last})

memos_at(positions) ==
    [k \in 1..Len(newest_first(positions)) |-> store_rows[newest_first(positions)[k]].memo]

has_live_memo(row) == row.memo # <<>> /\ row.memo[1] # DelMark

\* the rows of other users that carry a live memo and share a tag with the caller
similar_rows(user_id, reference_tags) ==
    {i \in 1..Len(store_rows) :
        /\ store_rows[i].user_id # user_id
        /\ has_live_memo(store_rows[i])
        /\ \E a \in 1..Len(store_rows[i].taste_notes), b \in 1..Len(reference_tags) :
              store_rows[i].taste_notes[a] = reference_tags[b]}

counts_expected(memos) ==
    IF memos = <<>> THEN EmptyDict ELSE occurrence_counts(memos, WHITELIST.words)

product_rows(user_id, whiskey_name) ==
    {i \in 1..Len(store_rows) :
        /\ store_rows[i].user_id # user_id
        /\ store_rows[i].whiskey_name = whiskey_name
        /\ has_live_memo(store_rows[i])}

\* C14: get_product_reviews_wordcloud returns as count the number of records of
\* other users whose product name equals the given one exactly and whose memo is
\* live, has_data exactly when that count is positive, and an empty wordcloud
\* when it is zero
C14_ProductReviewCount ==
    ret.op = "product_reviews_wordcloud" =>
        /\ ret.result.count = Cardinality(product_rows(ret.user_id, ret.whiskey_name))
        /\ ret.result.has_data <=> ret.result.count > 0
        /\ ret.result.count = 0 => ret.result.wordcloud = EmptyDict
        /\ ret.result.wordcloud =
              counts_expected(memos_at(product_rows(ret.user_id, ret.whiskey_name)))

\* two other users' reviews of the product were counted
C14_Witness ==
    /\ ret.op = "product_reviews_wordcloud"
    /\ ret.whiskey_name = "ardbeg"
    /\ ret.result.count = 2
    /\ ret.result.has_data
    /\ ret.result.wordcloud = ("smoky" :> 1) @@ ("linger" :> 1) @@ ("vanilla" :> 1)

\* nobody else reviewed the product under this spelling of its name
C14_WitnessNone ==
    /\ ret.op = "product_reviews_wordcloud"
    /\ ret.whiskey_name = "ardbeg"
    /\ ret.result = NoReviews
    /\ \E i \in 1..Len(store_rows) :
          /\ store_rows[i].user_id # ret.user_id
          /\ store_rows[i].whiskey_name = "Ardbeg"
          /\ has_live_memo(store_rows[i])

\* --- failing collaborators

AnalysisOps ==
    {"recent_trend", "full_analysis", "similar_users_wordcloud",
     "product_reviews_wordcloud", "word_frequencies"}

\* the sentinel of each entry point
sentinel_of(op) ==
    IF op \in {"recent_trend", "full_analysis"} THEN NoneVal
    ELSE IF op = "product_reviews_wordcloud"
         THEN [wordcloud |-> EmptyDict, count |-> 0, has_data |-> FALSE]
    ELSE EmptyDict

\* the rows a reader is left with: the worksheet's when it can be read and holds
\* any, else the memory list's
rows_read ==
    IF is_connected /\ "worksheet" \notin env.faults /\ sheet # <<>> THEN sheet
    ELSE memory_store

own_live_rows(user_id) ==
    {i \in 1..Len(rows_read) :
        rows_read[i].user_id = user_id /\ ~startswith_deleted(rows_read[i].memo)}

reviews_read(user_id, whiskey_name) ==
    {i \in 1..Len(rows_read) :
        /\ rows_read[i].user_id # user_id
        /\ rows_read[i].whiskey_name = whiskey_name
        /\ has_live_memo(rows_read[i])}

\* the last call computed from the store (a cached analysis reads nothing)
last_call_read_store ==
    /\ ret.op \in AnalysisOps \ {"word_frequencies"}
    /\ ret.op = "full_analysis" => ~ret.from_cache
    /\ ret.op = "similar_users_wordcloud" => ret.reference_tags # <<>>

\* the spreadsheet API raised during the last call
worksheet_raised ==
    last_call_read_store /\ is_connected /\ "worksheet" \in env.faults

\* the last call handed a memo to the tokenizer, and the tokenizer raised
tokenizer_raised ==
    /\ "analyze" \in env.faults
    /\ \/ ret.op = "word_frequencies" /\ live_memos(ret.memo_list) # <<>>
       \/ ret.op = "similar_users_wordcloud" /\ ret.memos # <<>>
       \/ ret.op = "product_reviews_wordcloud"
             /\ reviews_read(ret.user_id, ret.whiskey_name) # {}
       \/ /\ ret.op = "full_analysis" /\ ~ret.from_cache
          /\ Cardinality(own_live_rows(ret.user_id)) >= MinRecords
          /\ \E i \in own_live_rows(ret.user_id) : rows_read[i].memo # <<>>

C15_WitnessFallback ==
    /\ ret.op = "recent_trend"
    /\ worksheet_raised
    /\ ret.result # NoneVal

\* --- the records the analysers read

\* the store holds a live record of somebody else than the last caller
other_user_has_live_record ==
    \E i \in 1..Len(store_rows) :
        /\ store_rows[i].user_id # ret.user_id
        /\ ~startswith_deleted(store_rows[i].memo)

\* C16: whatever was saved, edited and deleted, and whether the records come from
\* the worksheet or from the memory list, get_user_records(u) holds no record
\* whose memo starts with the deletion mark and no record of another user; so do
\* the records a recent-trend call worked on
C16_OwnLiveRecordsOnly ==
    /\ \A u \in Users : \A i \in 1..Len(get_user_records(u)) :
          /\ get_user_records(u)[i].user_id = u
          /\ get_user_records(u)[i].memo = <<>> \/ get_user_records(u)[i].memo[1] # DelMark
    /\ ret.op = "recent_trend" =>
          \A i \in 1..Len(ret.records) :
              /\ ret.records[i].user_id = ret.user_id
              /\ ret.records[i].memo = <<>> \/ ret.records[i].memo[1] # DelMark

\* a recent-trend call read the memory list while it held a deleted record of
\* the caller and a live record of another user
C16_Witness ==
    /\ ret.op = "recent_trend"
    /\ ~is_connected
    /\ caller_has_deleted_record
    /\ other_user_has_live_record
    /\ Len(ret.records) >= 1

\* the same, read from the worksheet
C16_WitnessSheet ==
    /\ ret.op = "recent_trend"
    /\ is_connected
    /\ caller_has_deleted_record
    /\ other_user_has_live_record
    /\ Len(ret.records) >= 1

\* --- the verdict of the recent trend

\* C17: when exactly one tag gathered weight from the recent records rated three
\* stars or more, the verdict is a clear trend on that tag, with no comparison
C17_SingleTagIsClear ==
    (/\ ret.op = "recent_trend"
     /\ Len(ret.records) >= MinRecords
     /\ Cardinality(tags_of(trend_basis)) = 1)
        => /\ ret.result # NoneVal
           /\ ret.result.is_clear_trend
           /\ {ret.result.top_note} = tags_of(trend_basis)

\* peaty alone gathered weight, while a two-star record of the window is spicy
C17_Witness ==
    /\ ret.op = "recent_trend"
    /\ Len(ret.records) >= MinRecords
    /\ tags_of(trend_basis) = {"peaty"}
    /\ \E i \in 1..Min(ret.n, Len(ret.records)) :
          ret.records[i].rating = 2 /\ ret.records[i].taste_notes = <<"spicy">>
    /\ ret.result.is_clear_trend
    /\ ret.result.top_note = "peaty"

\* what an older record could have held instead: other stars, other tags
OlderVariants ==
    {[rating |-> 5, taste_notes |-> <<"sweet">>],
     [rating |-> 3, taste_notes |-> <<"peaty">>],
     [rating |-> 0, taste_notes |-> <<>>]}

\* the lists of the same length that agree with the records of the last call on
\* the newest min(n, len) of them
same_window_lists ==
    LET kept == Min(ret.n, Len(ret.records))
    IN  {[i \in 1..Len(ret.records) |->
             IF i <= kept THEN ret.records[i]
             ELSE [ret.records[i] EXCEPT !.rating = older[i].rating,
                                         !.taste_notes = older[i].taste_notes]] :
            older \in [kept + 1..Len(ret.records) -> OlderVariants]}

\* C18: the verdict depends on the newest min(n, len) records alone: every list
\* of the same length that agrees on them gets the same verdict, whatever the
\* stars and tags of its older records
C18_OlderRecordsIgnored ==
    (ret.op = "recent_trend" /\ Len(ret.records) >= MinRecords)
        => \A records \in same_window_lists : recent_taste_trend(records, ret.n) = ret.result

\* a window of three gave a clear peaty trend while an older record, outside the
\* window, is a four-star spicy one
C18_Witness ==
    /\ ret.op = "recent_trend"
    /\ Len(ret.records) >= MinRecords
    /\ ret.n < Len(ret.records)
    /\ \E i \in ret.n + 1..Len(ret.records) :
          ret.records[i].rating = 4 /\ ret.records[i].taste_notes = <<"spicy">>
    /\ ret.result # NoneVal
    /\ ret.result.is_clear_trend
    /\ ret.result.top_note = "peaty"

\* C19: for a user with five records or more, the recent trend is None when no
\* record of the window is rated three stars or more, and when the records that
\* are carry no tag at all; in every other case it is a verdict
C19_NoneWithoutWeight ==
    (ret.op = "recent_trend" /\ Len(ret.records) >= MinRecords)
        => IF trend_basis = <<>> \/ tags_of(trend_basis) = {}
           THEN ret.result = NoneVal
           ELSE ret.result # NoneVal /\ ret.result.kind = "verdict"

\* three-star records without a tag are all that passed the rating filter, while
\* a two-star record of the window carries one
C19_Witness ==
    /\ ret.op = "recent_trend"
    /\ Len(ret.records) >= MinRecords
    /\ trend_basis # <<>>
    /\ tags_of(trend_basis) = {}
    /\ tags_of(ret.records) # {}
    /\ ret.result = NoneVal

\* no record of the window reached three stars
C19_WitnessLowRated ==
    /\ ret.op = "recent_trend"
    /\ Len(ret.records) >= MinRecords
    /\ ret.n >= Len(ret.records)
    /\ trend_basis = <<>>
    /\ ret.result = NoneVal

\* C20: a whitelist built while the file is missing or unreadable is the empty
\* set; once the singleton is the empty set no step replaces it, whatever becomes
\* of the file, and every call made from then on returns the empty mapping
C20_EmptyWhitelistStays ==
    [][/\ (WHITELIST = NoneVal /\ WHITELIST' # NoneVal /\ env.whitelist_file # "present")
              => WHITELIST'.words = {}
       /\ (WHITELIST # NoneVal /\ WHITELIST.words = {})
              => /\ WHITELIST' = WHITELIST
                 /\ ret'.op = "word_frequencies" => ret'.result = EmptyDict]_vars

\* the file was put in place after the empty set was built; a call on memos whose
\* words the file lists still counts nothing, with the set built first
C20_Witness ==
    /\ ret.op = "word_frequencies"
    /\ ret.loaded_before # NoneVal
    /\ ret.loaded_before.words = {}
    /\ ret.whitelist_file = "present"
    /\ ret.whitelist = ret.loaded_before
    /\ ret.whitelist.serial = 1
    /\ count_memos(EmptyDict, ret.memo_list, env.whitelist_words) # EmptyDict
    /\ ret.result = EmptyDict

\* the word clouds in the answer of the last call
clouds_of_last_call ==
    CASE ret.op = "word_frequencies" -> {ret.result}
      [] ret.op = "similar_users_wordcloud" -> {ret.result}
      [] ret.op = "product_reviews_wordcloud" -> {ret.result.wordcloud}
      [] ret.op = "full_analysis" /\ ret.result # NoneVal -> {ret.result.memo_wordcloud}
      [] ret.op = "update_wordcloud" /\ ret.result # NoneVal ->
             {ret.result.memo_wordcloud, ret.result.similar_wordcloud}
      [] OTHER -> {}

\* C21: in a process without kiwipiepy _get_kiwi returns None and builds nothing,
\* and every word cloud an entry point returns is the empty mapping
C21_EmptyWithoutTokenizer ==
    ~env.kiwi_installed
        => /\ get_kiwi = NoneVal
           /\ KIWI_INSTANCE = NoneVal
           /\ \A cloud \in clouds_of_last_call : cloud = EmptyDict

\* without the tokenizer, a product with reviews whose memos hold whitelisted
\* words is reported with its count and an empty word cloud
C21_Witness ==
    /\ ~env.kiwi_installed
    /\ ret.op = "product_reviews_wordcloud"
    /\ ret.result.has_data
    /\ ret.result.count > 0
    /\ count_memos(EmptyDict, product_review_memos(ret.user_id, ret.whiskey_name),
                   env.whitelist_words) # EmptyDict
    /\ ret.result.wordcloud = EmptyDict

\* without the tokenizer, the analysis of a user with five records is computed
\* and its memo word cloud is empty
C21_WitnessAnalysis ==
    /\ ~env.kiwi_installed
    /\ ret.op = "full_analysis"
    /\ ret.result # NoneVal
    /\ ret.result.total_count >= MinRecords
    /\ ret.result.memo_wordcloud = EmptyDict

\* the rows of the sheet as the last call found it that carry its record id and
\* its user id
keyword_rows_matching ==
    {i \in 1..Len(ret.before) :
        /\ ret.before[i].timestamp = ret.record_id[2]
        /\ ret.before[i].user_id = ret.user_id}

\* the entries of a cell: what stands between two commas, or between a comma and
\* an end of the text, without the blanks around it
cell_entries(text) ==
    LET edges == {i \in 1..Len(text) : text[i] = Comma} \cup {0, Len(text) + 1}
        entry(lo, hi) ==
            LET filled == {k \in lo + 1..hi - 1 : text[k] # Blank}
            IN  IF filled = {} THEN <<>>
                ELSE SubSeq(text, CHOOSE k \in filled : \A j \in filled : k <= j,
                                  CHOOSE k \in filled : \A j \in filled : k >= j)
    IN  {entry(lo, hi) : <<lo, hi>> \in {p \in edges \X edges :
                                          /\ p[1] < p[2]
                                          /\ \A e \in edges : ~(p[1] < e /\ e < p[2])}}

\* C22: add_record_keyword answers False and writes nothing when no row carries
\* both the record id and the user id; it answers True and writes nothing when
\* the row's cell already lists the keyword
C22_KeywordSave ==
    ret.op = "add_record_keyword"
        => /\ keyword_rows_matching = {} => ret.result = FALSE /\ sheet = ret.before
           /\ \A i \in keyword_rows_matching :
                 ret.keyword \in cell_entries(ret.before[i].keyword)
                     => ret.result = TRUE /\ sheet = ret.before

\* the keyword was the second entry of the cell, written after a comma and a
\* blank: the call answered True and the cell is as it was
C22_Witness ==
    /\ ret.op = "add_record_keyword"
    /\ \E i \in keyword_rows_matching :
          /\ ret.before[i].keyword = <<"smoky", Comma, Blank, "vanilla">>
          /\ ret.keyword = <<"vanilla">>
    /\ ret.result = TRUE
    /\ sheet = ret.before

\* a row carries the record id, under another user id: False, nothing written
C22_WitnessAbsent ==
    /\ ret.op = "add_record_keyword"
    /\ keyword_rows_matching = {}
    /\ \E i \in 1..Len(ret.before) :
          ret.before[i].timestamp = ret.record_id[2] /\ ret.before[i].user_id # ret.user_id
    /\ ret.result = FALSE
    /\ sheet = ret.before

\* the keys of a TasteAnalysisResult ("kind" is the model's tag of the mapping)
AnalysisKeys ==
    {"kind", "main_expressions", "sub_expressions", "memo_wordcloud", "total_count"}

\* C23: nobody changes the mapping the cache holds for a user: every entry has
\* the content it was stored with, and a get_user_taste_analysis call answered
\* within the TTL returns exactly the four keys with the values stored
C23_CachedMappingUntouched ==
    /\ \A key \in DOMAIN CACHE : CACHE[key].value = CACHE[key].inserted
    /\ (ret.op = "full_analysis" /\ ret.result # NoneVal)
          => DOMAIN ret.result = AnalysisKeys

\* the ids of the worksheet's records that carry the deletion mark, with their
\* owners: the records a soft_delete_record call answered True for
soft_deleted_in_sheet ==
    {<<sheet[i].user_id, <<"ts", sheet[i].timestamp>>>> :
        i \in {k \in 1..Len(sheet) : startswith_deleted(sheet[k].memo)}}

listed_ids(user_id) ==
    LET records == get_user_records(user_id)
    IN  {records[i].id : i \in 1..Len(records)}

\* C24: a record of the worksheet that was soft-deleted is in no later list of
\* its owner's records, whatever is saved, edited or deleted afterwards
C24_DeletedStaysAbsent ==
    [][is_connected =>
          \A deleted \in soft_deleted_in_sheet : deleted[2] \notin listed_ids(deleted[1])']_vars

\* the records whose save_whiskey_record call has returned True: the calls that
\* wrote their row, whether or not they have gone on to the memory list
saved_to_sheet ==
    {threads[t].local.record :
        t \in {s \in Threads : /\ threads[s].op = "save_record"
                               /\ threads[s].pc \in {"save_memory", "returned"}
                               /\ threads[s].result = TRUE}}
    \cup (IF is_connected THEN {memory_store[i] : i \in 1..Len(memory_store)} ELSE {})

\* C25: every record whose save returned True is a row of the worksheet, however
\* the counting and the writing of concurrent saves interleave
C25_ConcurrentSavesKept ==
    \A record \in saved_to_sheet :
        \E k \in 1..Len(sheet) :
            sheet[k].timestamp = record.timestamp /\ sheet[k].user_id = record.user_id

\* get_user_taste_analysis answered None to the user
answered_none(u) == ret.op = "full_analysis" /\ ret.user_id = u /\ ret.result = NoneVal

\* the user is answered while holding five records or more that are not deleted
asked_with_enough(u) ==
    ret.op = "full_analysis" /\ ret.user_id = u /\ ret.visible_count >= MinRecords

\* the answer was worked out from the records the user has now
computed_now ==
    /\ ret.result # NoneVal
    /\ ~ret.from_cache
    /\ ret.result.total_count = ret.visible_count

\* C26: None is never put in the cache: a None answer leaves no entry for the
\* user, and the first call made once the user has five records is computed from
\* them, and every call made with five records returns a result
C26_NoneNeverCached ==
    /\ [](\A key \in DOMAIN CACHE : CACHE[key].value # NoneVal)
    /\ \A u \in Users :
          [](answered_none(u)
                => /\ cache_key(u) \notin DOMAIN CACHE
                   /\ [](asked_with_enough(u)
                            => /\ ret.result # NoneVal
                               /\ ret.entry_age < 0 => computed_now))

\* at the very instant of a None answer's clock the user, by now with five
\* records, is given a computed result
C26_Witness ==
    /\ asked_with_enough(Analysed)
    /\ now = 0
    /\ ret.entry_age < 0
    /\ computed_now
    /\ ret.visible_count = MinRecords

\* the orders the records of the last call's window can be put in, the records
\* behind the window staying where they are
window_orders ==
    LET kept == Min(ret.n, Len(ret.records))
    IN  {p \in [1..Len(ret.records) -> 1..Len(ret.records)] :
            /\ \A i, j \in 1..Len(ret.records) : p[i] = p[j] => i = j
            /\ \A i \in kept + 1..Len(ret.records) : p[i] = i}

reversed(notes) == [i \in 1..Len(notes) |-> notes[Len(notes) + 1 - i]]

\* the two highest tags of the last call's window weigh the same
top_two_tied ==
    /\ Cardinality(tags_of(trend_basis)) >= 2
    /\ tenths_of(trend_basis, top_tag(trend_basis)) = second_tenths(trend_basis)

\* C27: the verdict is that of the records of the window whatever their order
\* and whatever the order of each record's tags, and it is "no clear trend" when
\* the two highest tags weigh the same
C27_OrderIndependent ==
    (ret.op = "recent_trend" /\ Len(ret.records) >= MinRecords)
        => /\ \A p \in window_orders :
                 recent_taste_trend([i \in 1..Len(ret.records) |-> ret.records[p[i]]], ret.n)
                     = ret.result
           /\ recent_taste_trend(
                 [i \in 1..Len(ret.records) |->
                     [ret.records[i] EXCEPT !.taste_notes = reversed(@)]], ret.n) = ret.result
           /\ top_two_tied => ret.result = no_clear_trend

\* C28: an update writes no row of the worksheet that is stored under another
\* user id than the one of the record it was called with: every row an update
\* changes was that user's row before
C28_UpdateOwnRowsOnly ==
    [][ret'.op = "update"
          => \A i \in 1..Len(sheet) :
                sheet'[i] # sheet[i] => sheet[i].user_id = sheet'[i].user_id]_vars

\* the memos of the last call that reach the tokenizer and make it raise
memos_failed_on ==
    {i \in 1..Len(ret.memo_list) :
        /\ ret.memo_list[i] # <<>>
        /\ ret.memo_list[i][1] # DelMark
        /\ \/ "analyze" \in env.faults
           \/ /\ "analyze_memo" \in env.faults
              /\ "islay" \in {ret.memo_list[i][k] : k \in 1..Len(ret.memo_list[i])}}

\* C29: when the tokenizer raises on one memo of the list, _parse_memo_text
\* returns the empty mapping: nothing counted from the memos before it is kept
C29_NoPartialCounts ==
    (ret.op = "word_frequencies" /\ memos_failed_on # {}) => ret.result = EmptyDict

\* the first memo holds whitelisted words, the second makes the tokenizer raise
C29_Witness ==
    /\ ret.op = "word_frequencies"
    /\ env.faults = {"analyze_memo"}
    /\ ret.memo_list = <<<<"smoky", "lingers", "smoky">>, <<"vanilla", "islay", "lingers">>>>
    /\ memos_failed_on = {2}
    /\ count_memos(EmptyDict, <<ret.memo_list[1]>>, env.whitelist_words) # EmptyDict
    /\ ret.result = EmptyDict


\* --- records rated outside the weight table

FPositive(score) == score[1] > 0 \/ (score[1] = 0 /\ score[2] > 0)

\* the records of the basis whose rating cell is not a number
unrated_basis ==
    {i \in 1..Len(full_basis) : full_basis[i].rating = NotDigits}

\* C30: when the analysis covers a record whose rating cell is not a number,
\* every tag that is a key of main_expressions or of sub_expressions has a
\* strictly positive accumulated score
C30_KeysScorePositive ==
    (answered /\ unrated_basis # {}) =>
        /\ \A i \in 1..Len(ret.result.main_expressions) :
              FPositive(ret.result.main_expressions[i][2])
        /\ \A i \in 1..Len(ret.result.sub_expressions) :
              FPositive(ret.result.sub_expressions[i][2])

====
